---- MODULE Spec2Model ----
(***************************************************************************)
(* Inventory reconciliation engine of eterna-cards (lib/db.ts):            *)
(* purchase-order sync (product matching + transit creation), stock        *)
(* receipt (FIFO transit consumption + weighted-average cost), barcode     *)
(* attachment and the inventory snapshot, over the lowdb singleton         *)
(* (in-memory data) and the JSON file it writes.                           *)
(*                                                                         *)
(* Representation.                                                         *)
(*  - A JS string is a sequence of one-character strings.                  *)
(*  - null is the value Null.                                              *)
(*  - A JS number is an integer; Infinity and NaN are the two sentinels    *)
(*    below, handled by the js* operators.  Money is held in units of      *)
(*    1/10000 GBP (the 4 decimals the code rounds to); a line's incoming   *)
(*    unit cost is given in units of 1/100000 GBP, so that toFixed(4) has  *)
(*    something to round.                                                  *)
(*  - crypto.randomUUID() is a fresh number (ids are never reused and      *)
(*    nothing is deleted, so "number of records so far + 1" is fresh).     *)
(*  - new Date() reads the non-decreasing variable clock.                  *)
(***************************************************************************)
EXTENDS Integers, Sequences, FiniteSets, TLC

\* ------------------------------------------------------------------ bounds
MaxProducts == 2
MaxTransit == 3
MaxLines == 2
MaxTime == 1
MaxOnHand == 8
MaxCalls == 4
MaxSyncCalls == 2
MaxOrders == 2
MaxBackfillCalls == 5
MaxTokens == 3
MaxTasks == 3
MaxRuns == 2

\* ------------------------------------------------------------- JS values
Null == <<"null">>

\* JS Infinity: larger than every finite number of the model, absorbing.
Infinity == 1000000000
\* JS NaN: every comparison with it is false.
NaN == -1000000000

\* Mutation: Infinity counts as finite.
IsFiniteButForNaN(x) == x # NaN
IsFinite(x) == x # Infinity /\ x # NaN /\ x # -Infinity

jsGt(a, b) == a # NaN /\ b # NaN /\ a > b
jsGe(a, b) == a # NaN /\ b # NaN /\ a >= b
jsLe(a, b) == a # NaN /\ b # NaN /\ a <= b

\* a + b, a - b, a * b, Math.min(a, b) for a, b >= 0 or Infinity (the only
\* operands receive and snapshot ever see).
jsAdd(a, b) == IF a = Infinity \/ b = Infinity THEN Infinity ELSE a + b
jsSub(a, b) ==
  IF a = Infinity /\ b = Infinity THEN NaN
  ELSE IF a = Infinity THEN Infinity
  ELSE IF b = Infinity THEN -Infinity
  ELSE a - b
jsMul(a, b) ==
  IF a = Infinity \/ b = Infinity
  THEN (IF a = 0 \/ b = 0 THEN NaN ELSE Infinity)
  ELSE a * b
\* Mutation: a receipt takes what was asked for, not what is available.
jsMinTakesRequested(a, b) == a
jsMin(a, b) == IF a <= b THEN a ELSE b

\* ---------------------------------------------------------------- strings
UpperCase == <<"A", "B", "C", "D", "E", "F", "G", "H", "I", "J", "K", "L", "M",
               "N", "O", "P", "Q", "R", "S", "T", "U", "V", "W", "X", "Y", "Z">>
LowerCase == <<"a", "b", "c", "d", "e", "f", "g", "h", "i", "j", "k", "l", "m",
               "n", "o", "p", "q", "r", "s", "t", "u", "v", "w", "x", "y", "z">>
Digits == {"0", "1", "2", "3", "4", "5", "6", "7", "8", "9"}
WhiteSpace == {" ", "\t", "\n"}

Range(s) == {s[i] : i \in DOMAIN s}

\* String.prototype.toLowerCase, per character and per string.
LowerOf ==
  [c \in Range(UpperCase) |-> LowerCase[CHOOSE i \in DOMAIN UpperCase : UpperCase[i] = c]]
LowerChar(c) == IF c \in DOMAIN LowerOf THEN LowerOf[c] ELSE c
toLowerCase(s) == [i \in DOMAIN s |-> LowerChar(s[i])]

\* String.prototype.trim: drop leading and trailing white space.
RECURSIVE trimStart(_)
trimStart(s) ==
  IF s # <<>> /\ Head(s) \in WhiteSpace THEN trimStart(Tail(s)) ELSE s
RECURSIVE trimEnd(_)
trimEnd(s) ==
  IF s # <<>> /\ s[Len(s)] \in WhiteSpace
  THEN trimEnd(SubSeq(s, 1, Len(s) - 1))
  ELSE s
trim(s) == trimEnd(trimStart(s))

\* x?.trim() on a string-or-null value.
trimOpt(s) == IF s = Null THEN Null ELSE trim(s)

\* .replace(/[^a-z0-9\s]/g, ' ')
AlnumOrSpace == Range(LowerCase) \cup Digits \cup WhiteSpace
replaceNonAlnum(s) == [i \in DOMAIN s |-> IF s[i] \in AlnumOrSpace THEN s[i] ELSE " "]

\* .split(/\s+/): the pieces between maximal runs of white space, empty
\* pieces at either end included.
RECURSIVE splitFrom(_, _, _, _)
splitFrom(s, i, cur, inSep) ==
  IF i > Len(s) THEN <<cur>>
  ELSE IF s[i] \in WhiteSpace
       THEN IF inSep THEN splitFrom(s, i + 1, cur, TRUE)
            ELSE <<cur>> \o splitFrom(s, i + 1, <<>>, TRUE)
       ELSE splitFrom(s, i + 1, Append(cur, s[i]), FALSE)
splitWs(s) == splitFrom(s, 1, <<>>, FALSE)

StopWords ==
  { <<"t", "h", "e">>, <<"a", "n", "d">>, <<"w", "i", "t", "h">>,
    <<"c", "a", "r", "d">>, <<"c", "a", "r", "d", "s">>,
    <<"b", "o", "o", "s", "t", "e", "r">>, <<"b", "o", "x">>,
    <<"b", "o", "x", "e", "s">>, <<"v", "e", "r">>,
    <<"v", "e", "r", "s", "i", "o", "n">> }
MinTokenLen == 3

\* normalizeTextForMatch: the ordered tokens of a text.
normalizeTextForMatch(text) ==
  SelectSeq(splitWs(replaceNonAlnum(toLowerCase(text))),
            LAMBDA token : Len(token) >= MinTokenLen /\ token \notin StopWords)

\* Mutation: the union counts repeated tokens.
computeTokenSimilarityCountsRepeats(aTokens, bTokens) ==
  IF Len(aTokens) = 0 \/ Len(bTokens) = 0 THEN <<0, 1>>
  ELSE LET aSet == Range(aTokens)
           bSet == Range(bTokens)
           intersection == Cardinality(aSet \cap bSet)
           union == Len(aTokens \o bTokens) - intersection
       IN IF union = 0 THEN <<0, 1>> ELSE <<intersection, union>>
\* computeTokenSimilarity: intersection / union as the fraction <<n, d>>.
computeTokenSimilarity(aTokens, bTokens) ==
  IF Len(aTokens) = 0 \/ Len(bTokens) = 0 THEN <<0, 1>>
  ELSE LET aSet == Range(aTokens)
           bSet == Range(bTokens)
           intersection == Cardinality(aSet \cap bSet)
           union == Cardinality(Range(aTokens \o bTokens))
       IN IF union = 0 THEN <<0, 1>> ELSE <<intersection, union>>

\* Comparison of two scores (fractions with positive denominators).
ScoreGt(a, b) == a[1] * b[2] > b[1] * a[2]
ScoreLt(a, b) == a[1] * b[2] < b[1] * a[2]
MatchThreshold == <<1, 2>>


\* ------------------------------------------------------------------ state
VARIABLES
  products,   \* database.data.products   (in memory)
  inventory,  \* database.data.inventory  (in memory)
  transit,    \* database.data.transit    (in memory)
  disk,       \* data/db.json as last written by database.write()
  clock,      \* the wall clock read by new Date()
  calls,      \* number of calls made so far (bounds the exploration)
  ret,        \* what the last call returned or threw
  args,       \* the parameters of the last sync, where a specification keeps
              \* them (<<>> otherwise); after a backfill run, those of every
              \* sync the run made, in order
  purchaseOrders,  \* database.data.purchaseOrders
  orderLines,      \* database.data.poLines
  pending          \* the calls in flight, where a specification lets calls
                   \* interleave: per call its position, parameters and locals

vars == <<products, inventory, transit, disk, clock, calls, ret, args, purchaseOrders, orderLines, pending>>

Times == 0..MaxTime

\* createDefaultDatabase, restricted to the inventory collections.
createDefaultDatabase == [products |-> <<>>, inventory |-> <<>>, transit |-> <<>>]

\* database.write(): the file receives the in-memory data as they are now.
Written(p, i, t) == [products |-> p, inventory |-> i, transit |-> t]

\* Array.prototype.find / findIndex: index of the first element satisfying
\* Test, 0 when there is none.
FindIndex(hits) ==
  IF \E i \in DOMAIN hits : hits[i]
  THEN CHOOSE i \in DOMAIN hits : hits[i] /\ \A j \in 1..(i - 1) : ~hits[j]
  ELSE 0

\* Array.prototype.includes
Includes(seq, x) == \E i \in DOMAIN seq : seq[i] = x

\* A JS value handed in where a number is expected: its typeof and, for a
\* number, its value.
Num(v) == [type |-> "number", val |-> v]
NotANumber == [type |-> "string", val |-> 0]

\* ------------------------------------------------------------------ inputs
RedFox == <<"r", "e", "d", " ", "f", "o", "x">>
RedFoxAlt == <<"R", "e", "d", "-", "F", "o", "x", " ">>
BoxOnly == <<"b", "o", "x">>
Blank == <<" ">>
RedOnly == <<"r", "e", "d">>
RedCub == <<"r", "e", "d", " ", "c", "u", "b">>
SkuA1 == <<"a", "1">>
SkuA1Alt == <<"A", "1", " ">>

Line(description, supplierSku, quantity, unitCostExVAT) ==
  [description |-> description, supplierSku |-> supplierSku, quantity |-> quantity,
   unitCostExVAT |-> unitCostExVAT]

\* Units of 1/100000 GBP per GBP.
GBP == 100000

MainLines ==
  { Line(RedFox, Null, Num(5), Num(2 * GBP)),
    Line(RedFoxAlt, Null, Num(3), Num(3 * GBP)),
    Line(BoxOnly, SkuA1Alt, Num(Infinity), Num(Infinity)),
    Line(RedFox, Null, Num(0), Num(2 * GBP)),
    Line(Blank, Null, Num(3), Num(2 * GBP)) }

\* Lines with the malformed numbers a caller can pass (in a request body
\* 1e999 parses to Infinity); 0.12345 is a decimal tie for 4 places.
SyncLines ==
  MainLines \cup
    { Line(RedFox, Null, Num(3), Num(Infinity)),
      Line(RedFox, Null, Num(NaN), Num(2 * GBP)),
      Line(RedFoxAlt, SkuA1, Num(-1), Num(-1)),
      Line(RedFox, Null, NotANumber, NotANumber),
      Line(RedFox, Null, Num(3), Num(12345)) }

\* Lines for product matching, all of quantity 1: "red" scores 1/2 against
\* "red fox", "red cub" 1/3; "Red-Fox " scores 1 and carries a SKU.
MatchLines ==
  { Line(RedFox, Null, Num(1), Num(GBP)),
    Line(RedFoxAlt, SkuA1, Num(1), Num(GBP)),
    Line(BoxOnly, SkuA1Alt, Num(1), Num(GBP)),
    Line(RedOnly, Null, Num(1), Num(GBP)),
    Line(RedCub, Null, Num(1), Num(GBP)),
    Line(Blank, SkuA1, Num(1), Num(GBP)) }

\* normalizeTextForMatch of the texts the inputs can put in the catalog,
\* computed once.
TokenTable ==
  [t \in {trim(l.description) : l \in MainLines \cup SyncLines \cup MatchLines} |->
     normalizeTextForMatch(t)]
Tokens(t) == IF t \in DOMAIN TokenTable THEN TokenTable[t] ELSE normalizeTextForMatch(t)

\* --------------------------------------------------- product matching
\* Step 1 of the matcher: first product whose primary SKU, supplier SKU or
\* one of whose barcodes equals the SKU ignoring case.
\* Mutation: barcodes are not consulted.
\* Mutation: the product's codes are compared as they are written.
SkuMatchesExactCase(p, skuLower) ==
  \/ (p.primarySku # Null /\ p.primarySku = skuLower)
  \/ (p.supplierSku # Null /\ p.supplierSku = skuLower)
  \/ \E k \in DOMAIN p.barcodes : p.barcodes[k] = skuLower
SkuMatchesSkusOnly(p, skuLower) ==
  \/ (p.primarySku # Null /\ toLowerCase(p.primarySku) = skuLower)
  \/ (p.supplierSku # Null /\ toLowerCase(p.supplierSku) = skuLower)
SkuMatches(p, skuLower) ==
  \/ (p.primarySku # Null /\ toLowerCase(p.primarySku) = skuLower)
  \/ (p.supplierSku # Null /\ toLowerCase(p.supplierSku) = skuLower)
  \/ \E k \in DOMAIN p.barcodes : toLowerCase(p.barcodes[k]) = skuLower

ExactMatch(prods, supplierSku) ==
  IF supplierSku = Null THEN 0
  ELSE FindIndex([ix \in DOMAIN prods |-> SkuMatches(prods[ix], toLowerCase(supplierSku))])

\* Score of one candidate: similarity to the name, raised by every alias
\* that scores strictly higher.
RECURSIVE AliasScan(_, _, _, _)
AliasScan(lineTokens, aliases, k, score) ==
  IF k > Len(aliases) THEN score
  ELSE LET aliasScore ==
             computeTokenSimilarity(lineTokens, Tokens(aliases[k]))
       IN AliasScan(lineTokens, aliases, k + 1,
                    IF ScoreGt(aliasScore, score) THEN aliasScore ELSE score)

CandidateScore(lineTokens, candidate) ==
  AliasScan(lineTokens, candidate.aliases, 1,
            computeTokenSimilarity(lineTokens, Tokens(candidate.name)))

\* Mutation: a candidate with an equal score replaces the best so far.
RECURSIVE FuzzyScanLastWins(_, _, _, _, _)
FuzzyScanLastWins(prods, lineTokens, i, bestScore, matched) ==
  IF i > Len(prods) THEN <<bestScore, matched>>
  ELSE LET score == CandidateScore(lineTokens, prods[i])
       IN IF ~ScoreLt(score, bestScore)
          THEN FuzzyScanLastWins(prods, lineTokens, i + 1, score, i)
          ELSE FuzzyScanLastWins(prods, lineTokens, i + 1, bestScore, matched)
\* Step 2: scan the catalog in order; a candidate replaces the best so far
\* only with a strictly higher score.  Returns <<bestScore, index>>.
RECURSIVE FuzzyScan(_, _, _, _, _)
FuzzyScan(prods, lineTokens, i, bestScore, matched) ==
  IF i > Len(prods) THEN <<bestScore, matched>>
  ELSE LET score == CandidateScore(lineTokens, prods[i])
       IN IF ScoreGt(score, bestScore)
          THEN FuzzyScan(prods, lineTokens, i + 1, score, i)
          ELSE FuzzyScan(prods, lineTokens, i + 1, bestScore, matched)

\* Mutation: a score equal to the threshold is rejected too.
FuzzyMatchAboveThreshold(prods, rawDescription) ==
  LET best == FuzzyScan(prods, Tokens(rawDescription), 1, <<0, 1>>, 0)
  IN IF ScoreGt(best[1], MatchThreshold) THEN best[2] ELSE 0
FuzzyMatch(prods, rawDescription) ==
  LET best == FuzzyScan(prods, Tokens(rawDescription), 1, <<0, 1>>, 0)
  IN IF ScoreLt(best[1], MatchThreshold) THEN 0 ELSE best[2]

\* Mutation: the fuzzy match is tried first.
\* Mutation: the description is never consulted.
MatchProductExactOnly(prods, rawDescription, supplierSku) ==
  ExactMatch(prods, supplierSku)
\* Mutation: the description is consulted before the SKU.
MatchProductFuzzyFirst(prods, rawDescription, supplierSku) ==
  LET fuzzy == FuzzyMatch(prods, rawDescription)
  IN IF fuzzy # 0 THEN fuzzy ELSE ExactMatch(prods, supplierSku)
\* matchedProduct of one line: index into the catalog, 0 for null.
MatchProduct(prods, rawDescription, supplierSku) ==
  LET exact == ExactMatch(prods, supplierSku)
  IN IF exact # 0 THEN exact ELSE FuzzyMatch(prods, rawDescription)


\* ------------------------------------------------------ purchase-order sync
\* Ids.  NoId stands for a missing id (null or the empty string: both falsy).
NoId == 0
SupplierIds == {1}
PurchaseOrderIds == {1}

\* Number(x.toFixed(4)) of num/den >= 0: the nearest multiple of 1/10000.
\* On an exact decimal tie the digit toFixed prints depends on the binary
\* expansion of the double, so both neighbours are possible.
ToFixed4(num, den) ==
  IF num = Infinity THEN {Infinity}
  ELSE LET f == num \div den
           r == num % den
       IN IF 2 * r < den THEN {f}
          ELSE IF 2 * r > den THEN {f + 1}
          ELSE {f, f + 1}

\* Units of 1/100000 (a line's unitCostExVAT) per unit of 1/10000.
InputCostScale == 10

SanitizeQuantity(q) ==
  IF q.type = "number" /\ jsGt(q.val, 0) THEN q.val ELSE 0

SanitizeCost(c) ==
  IF c.type = "number" /\ jsGe(c.val, 0) THEN ToFixed4(c.val, InputCostScale) ELSE {0}

\* The product created for an unmatched line.
NewProduct(id, rawDescription, supplierSku, supplierId, now) ==
  [id |-> id, name |-> rawDescription, primarySku |-> supplierSku,
   supplierSku |-> supplierSku, barcodes |-> <<>>, aliases |-> <<rawDescription>>,
   supplierId |-> supplierId, category |-> Null, tags |-> <<>>,
   createdAt |-> now, updatedAt |-> now]

\* The alias / supplier / timestamp update of a matched product.
\* Mutation: the description is appended even when it is an alias already.
TouchMatchedAlwaysAppends(p, rawDescription, supplierId, now) ==
  [p EXCEPT !.aliases = Append(@, rawDescription),
            !.supplierId = IF @ = NoId THEN supplierId ELSE @,
            !.updatedAt = now]
TouchMatched(p, rawDescription, supplierId, now) ==
  [p EXCEPT !.aliases = IF Includes(@, rawDescription) THEN @ ELSE Append(@, rawDescription),
            !.supplierId = IF @ = NoId THEN supplierId ELSE @,
            !.updatedAt = now]

\* Mutation: a new record has nothing left to receive.
NewTransitStartsEmpty(id, productId, purchaseOrderId, poLineId, supplierId, quantity, unitCost, now) ==
  [id |-> id, productId |-> productId, purchaseOrderId |-> purchaseOrderId,
   poLineId |-> poLineId, supplierId |-> supplierId, quantity |-> quantity,
   remainingQuantity |-> 0, unitCostGBP |-> unitCost,
   status |-> "in_transit", createdAt |-> now, updatedAt |-> now]
NewTransit(id, productId, purchaseOrderId, poLineId, supplierId, quantity, unitCost, now) ==
  [id |-> id, productId |-> productId, purchaseOrderId |-> purchaseOrderId,
   poLineId |-> poLineId, supplierId |-> supplierId, quantity |-> quantity,
   remainingQuantity |-> quantity, unitCostGBP |-> unitCost,
   status |-> "in_transit", createdAt |-> now, updatedAt |-> now]

\* One iteration of the loop over params.poLines, given the matched product
\* (index m, 0 for none), the time read and the rounded cost.  st carries the
\* loop's variables; st.resolved records, per line, what the iteration did.
\* Mutation: a line that has a transit record already gets no second one.
LineStepOncePerLine(st, line, supplierId, purchaseOrderId, rawDescription, supplierSku, m, now, unitCost) ==
  LET prods == IF m # 0
               THEN [st.products EXCEPT ![m] = TouchMatched(@, rawDescription, supplierId, now)]
               ELSE Append(st.products,
                           NewProduct(Len(st.products) + 1, rawDescription, supplierSku, supplierId, now))
      productId == IF m # 0 THEN st.products[m].id ELSE Len(st.products) + 1
      quantity == SanitizeQuantity(line.quantity)
      skip == \/ jsLe(quantity, 0)
              \/ \E i \in DOMAIN st.transit :
                    /\ st.transit[i].purchaseOrderId = purchaseOrderId
                    /\ st.transit[i].poLineId = line.id
      trans == IF skip THEN st.transit
               ELSE Append(st.transit,
                           NewTransit(Len(st.transit) + 1, productId, purchaseOrderId, line.id,
                                      supplierId, quantity, unitCost, now))
  IN [products |-> prods, transit |-> trans, clock |-> now,
      productsCreated |-> st.productsCreated + (IF m # 0 THEN 0 ELSE 1),
      productsMatched |-> st.productsMatched + (IF m # 0 THEN 1 ELSE 0),
      transitCreated |-> st.transitCreated + (IF skip THEN 0 ELSE 1),
      resolved |-> Append(st.resolved,
                          [lineId |-> line.id, productId |-> productId,
                           how |-> IF m # 0 THEN "matched" ELSE "created",
                           quantity |-> quantity, unitCost |-> unitCost,
                           transitId |-> IF skip THEN NoId ELSE Len(st.transit) + 1])]
LineStep(st, line, supplierId, purchaseOrderId, rawDescription, supplierSku, m, now, unitCost) ==
  LET prods == IF m # 0
               THEN [st.products EXCEPT ![m] = TouchMatched(@, rawDescription, supplierId, now)]
               ELSE Append(st.products,
                           NewProduct(Len(st.products) + 1, rawDescription, supplierSku, supplierId, now))
      productId == IF m # 0 THEN st.products[m].id ELSE Len(st.products) + 1
      quantity == SanitizeQuantity(line.quantity)
      skip == jsLe(quantity, 0)
      trans == IF skip THEN st.transit
               ELSE Append(st.transit,
                           NewTransit(Len(st.transit) + 1, productId, purchaseOrderId, line.id,
                                      supplierId, quantity, unitCost, now))
  IN [products |-> prods, transit |-> trans, clock |-> now,
      productsCreated |-> st.productsCreated + (IF m # 0 THEN 0 ELSE 1),
      productsMatched |-> st.productsMatched + (IF m # 0 THEN 1 ELSE 0),
      transitCreated |-> st.transitCreated + (IF skip THEN 0 ELSE 1),
      resolved |-> Append(st.resolved,
                          [lineId |-> line.id, productId |-> productId,
                           how |-> IF m # 0 THEN "matched" ELSE "created",
                           quantity |-> quantity, unitCost |-> unitCost,
                           transitId |-> IF skip THEN NoId ELSE Len(st.transit) + 1])]

\* Mutation: a line with a blank description counts as matched.
ProcessLineCountsBlank(st, line, supplierId, purchaseOrderId) ==
  LET rawDescription == trimOpt(line.description)
      trimmedSku == trimOpt(line.supplierSku)
      supplierSku == IF trimmedSku = <<>> THEN Null ELSE trimmedSku
  IN IF rawDescription = Null \/ rawDescription = <<>>
     THEN {[st EXCEPT !.productsMatched = @ + 1,
                      !.resolved =
              Append(@, [lineId |-> line.id, productId |-> NoId, how |-> "skipped",
                         quantity |-> 0, unitCost |-> 0, transitId |-> NoId])]}
     ELSE LET m == MatchProduct(st.products, rawDescription, supplierSku)
          IN {LineStep(st, line, supplierId, purchaseOrderId, rawDescription, supplierSku,
                       m, now, unitCost) :
                now \in st.clock..MaxTime, unitCost \in SanitizeCost(line.unitCostExVAT)}
\* All outcomes of one iteration: the clock may have moved on before
\* new Date() is read.
ProcessLine(st, line, supplierId, purchaseOrderId) ==
  LET rawDescription == trimOpt(line.description)
      trimmedSku == trimOpt(line.supplierSku)
      supplierSku == IF trimmedSku = <<>> THEN Null ELSE trimmedSku
  IN IF rawDescription = Null \/ rawDescription = <<>>
     THEN {[st EXCEPT !.resolved =
              Append(@, [lineId |-> line.id, productId |-> NoId, how |-> "skipped",
                         quantity |-> 0, unitCost |-> 0, transitId |-> NoId])]}
     ELSE LET m == MatchProduct(st.products, rawDescription, supplierSku)
          IN {LineStep(st, line, supplierId, purchaseOrderId, rawDescription, supplierSku,
                       m, now, unitCost) :
                now \in st.clock..MaxTime, unitCost \in SanitizeCost(line.unitCostExVAT)}

RECURSIVE ProcessLines(_, _, _, _)
ProcessLines(st, lines, supplierId, purchaseOrderId) ==
  IF lines = <<>> THEN {st}
  ELSE UNION {ProcessLines(next, Tail(lines), supplierId, purchaseOrderId) :
                next \in ProcessLine(st, Head(lines), supplierId, purchaseOrderId)}

\* syncInventoryFromPurchaseOrder
SyncOutcomes(supplierId, purchaseOrderId, poLines) ==
  ProcessLines([products |-> products, transit |-> transit, clock |-> clock,
                productsCreated |-> 0, productsMatched |-> 0, transitCreated |-> 0,
                resolved |-> <<>>],
               poLines, supplierId, purchaseOrderId)


\* ------------------------------------------------------------ receive stock
\* Indices into a collection, in order, of the elements satisfying Test
\* (Array.prototype.filter, by reference).
RECURSIVE FilterIdx(_, _)
FilterIdx(hits, i) ==
  IF i > Len(hits) THEN <<>>
  ELSE (IF hits[i] THEN <<i>> ELSE <<>>) \o FilterIdx(hits, i + 1)

\* Array.prototype.sort with the comparator a.createdAt - b.createdAt: a
\* stable sort, so records created at the same time keep their store order.
RECURSIVE InsertByCreatedAt(_, _, _)
InsertByCreatedAt(trans, sorted, i) ==
  IF sorted = <<>> THEN <<i>>
  ELSE IF trans[Head(sorted)].createdAt <= trans[i].createdAt
       THEN <<Head(sorted)>> \o InsertByCreatedAt(trans, Tail(sorted), i)
       ELSE <<i>> \o sorted
\* Mutation: the newest open record is consumed first.
SortNewestFirst(trans, idxs) ==
  [n \in 1..Len(idxs) |-> idxs[Len(idxs) + 1 - n]]
RECURSIVE SortByCreatedAt(_, _)
SortByCreatedAt(trans, idxs) ==
  IF idxs = <<>> THEN <<>>
  ELSE InsertByCreatedAt(trans, SortByCreatedAt(trans, SubSeq(idxs, 1, Len(idxs) - 1)),
                         idxs[Len(idxs)])

\* Mutation: the filter forgets the product.
OpenTransitOfAnyProduct(trans, productId) ==
  SortByCreatedAt(trans,
    FilterIdx([ix \in DOMAIN trans |-> jsGt(trans[ix].remainingQuantity, 0)], 1))
\* The open transit records of a product, oldest first.
OpenTransit(trans, productId) ==
  SortByCreatedAt(trans,
    FilterIdx([ix \in DOMAIN trans |->
                 trans[ix].productId = productId /\ jsGt(trans[ix].remainingQuantity, 0)], 1))

\* The status receive gives a record it has taken from.
\* Mutation: a record is never marked received.
StatusAfterTakeAlwaysPartial(remainingQuantity) == "partially_received"
StatusAfterTake(remainingQuantity) ==
  IF jsGt(remainingQuantity, 0) THEN "partially_received" ELSE "received"

\* Mutation: the record keeps what was taken from it.
ConsumeStepKeepsRemaining(acc, i, now) ==
  LET t == acc.transit[i]
      available == t.remainingQuantity
      take == jsMin(acc.remainingToReceive, available)
      unitCost == IF jsGe(t.unitCostGBP, 0) THEN t.unitCostGBP ELSE 0
  IN [transit |-> [acc.transit EXCEPT ![i] =
                     [@ EXCEPT !.status = StatusAfterTake(available),
                               !.updatedAt = now]],
      remainingToReceive |-> jsSub(acc.remainingToReceive, take),
      receivedQuantity |-> jsAdd(acc.receivedQuantity, take),
      incomingTotalValue |-> jsAdd(acc.incomingTotalValue, jsMul(take, unitCost)),
      affectedTransitIds |-> Append(acc.affectedTransitIds, t.id)]
\* Mutation: what is taken is added back to the record.
ConsumeStepAddsBack(acc, i, now) ==
  LET t == acc.transit[i]
      available == t.remainingQuantity
      take == jsMin(acc.remainingToReceive, available)
      unitCost == IF jsGe(t.unitCostGBP, 0) THEN t.unitCostGBP ELSE 0
      left == jsAdd(available, take)
  IN [transit |-> [acc.transit EXCEPT ![i] =
                     [@ EXCEPT !.remainingQuantity = left,
                               !.status = StatusAfterTake(left),
                               !.updatedAt = now]],
      remainingToReceive |-> jsSub(acc.remainingToReceive, take),
      receivedQuantity |-> jsAdd(acc.receivedQuantity, take),
      incomingTotalValue |-> jsAdd(acc.incomingTotalValue, jsMul(take, unitCost)),
      affectedTransitIds |-> Append(acc.affectedTransitIds, t.id)]
\* One iteration of the loop over transitRecords; acc carries the loop's
\* variables.
ConsumeStep(acc, i, now) ==
  LET t == acc.transit[i]
      available == t.remainingQuantity
      take == jsMin(acc.remainingToReceive, available)
      unitCost == IF jsGe(t.unitCostGBP, 0) THEN t.unitCostGBP ELSE 0
      left == jsSub(available, take)
  IN [transit |-> [acc.transit EXCEPT ![i] =
                     [@ EXCEPT !.remainingQuantity = left,
                               !.status = StatusAfterTake(left),
                               !.updatedAt = now]],
      remainingToReceive |-> jsSub(acc.remainingToReceive, take),
      receivedQuantity |-> jsAdd(acc.receivedQuantity, take),
      incomingTotalValue |-> jsAdd(acc.incomingTotalValue, jsMul(take, unitCost)),
      affectedTransitIds |-> Append(acc.affectedTransitIds, t.id)]

\* Mutation: the loop stops after the first open record.
ConsumeFirstOnly(acc, records, now) ==
  IF records = <<>> THEN acc ELSE ConsumeStep(acc, Head(records), now)
RECURSIVE Consume(_, _, _)
Consume(acc, records, now) ==
  IF records = <<>> THEN acc
  ELSE IF jsLe(acc.remainingToReceive, 0) THEN acc
  ELSE IF jsLe(acc.transit[Head(records)].remainingQuantity, 0)
       THEN Consume(acc, Tail(records), now)
       ELSE Consume(ConsumeStep(acc, Head(records), now), Tail(records), now)

\* What a call hands back: the value returned (error = "") or the message of
\* the Error thrown.
Returned(op, value) == [op |-> op, error |-> "", value |-> value]
Thrown(op, error) == [op |-> op, error |-> error, value |-> <<>>]

NewInventoryRecord(id, productId, now) ==
  [id |-> id, productId |-> productId, quantityOnHand |-> 0, averageCostGBP |-> 0,
   lastUpdated |-> now]

\* Mutation: a new record is pushed on every call.
AlwaysPushInventoryRecord(inv, productId, now) ==
  <<Append(inv, NewInventoryRecord(Len(inv) + 1, productId, now)), Len(inv) + 1>>
\* The inventory collection after "find the product's record or push a new
\* one", and the index of that record.
EnsureInventoryRecord(inv, productId, now) ==
  LET found == FindIndex([ix \in DOMAIN inv |-> inv[ix].productId = productId])
  IN IF found # 0 THEN <<inv, found>>
     ELSE <<Append(inv, NewInventoryRecord(Len(inv) + 1, productId, now)), Len(inv) + 1>>

\* Mutation: the value of the stock already on hand is left out.
\* Mutation: the value is divided by the quantity received, not by the new
\* on-hand quantity.
NewAverageOverReceived(currentOnHand, currentAvg, incomingTotalValue, newOnHand) ==
  IF jsGt(newOnHand, 0)
  THEN ToFixed4(jsAdd(jsMul(currentOnHand, currentAvg), incomingTotalValue),
                jsSub(newOnHand, currentOnHand))
  ELSE {0}
NewAverageIgnoresStock(currentOnHand, currentAvg, incomingTotalValue, newOnHand) ==
  IF jsGt(newOnHand, 0) THEN ToFixed4(incomingTotalValue, newOnHand) ELSE {0}
\* The weighted-average cost after a receipt.
NewAverage(currentOnHand, currentAvg, incomingTotalValue, newOnHand) ==
  IF jsGt(newOnHand, 0)
  THEN ToFixed4(jsAdd(jsMul(currentOnHand, currentAvg), incomingTotalValue), newOnHand)
  ELSE {0}

\* receiveStockForProduct on the in-memory data, the clock reading now at
\* new Date(): the set of possible outcomes, each with the data it leaves in
\* memory, whether database.write() was reached, and what the caller gets.
ReceiveOutcomes(productId, quantity, now) ==
  LET same(error) == {[inventory |-> inventory, transit |-> transit, wrote |-> FALSE,
                       clock |-> clock, ret |-> Thrown("receive", error)]}
  IN IF productId = NoId THEN same("productId is required")
     ELSE IF quantity.type # "number" \/ ~IsFinite(quantity.val) \/ quantity.val <= 0
     THEN same("Quantity must be a positive number")
     ELSE IF FindIndex([ix \in DOMAIN products |-> products[ix].id = productId]) = 0
     THEN same("Product not found")
     ELSE
       LET ensured == EnsureInventoryRecord(inventory, productId, now)
           inv == ensured[1]
           k == ensured[2]
           transitRecords == OpenTransit(transit, productId)
       IN IF Len(transitRecords) = 0
          THEN {[inventory |-> inv, transit |-> transit, wrote |-> FALSE, clock |-> now,
                 ret |-> Thrown("receive",
                                "No in-transit quantity available for this product")]}
          ELSE
            LET acc == Consume([transit |-> transit, remainingToReceive |-> quantity.val,
                                receivedQuantity |-> 0, incomingTotalValue |-> 0,
                                affectedTransitIds |-> <<>>],
                               transitRecords, now)
            IN IF jsLe(acc.receivedQuantity, 0)
               THEN {[inventory |-> inv, transit |-> acc.transit, wrote |-> FALSE,
                      clock |-> now,
                      ret |-> Thrown("receive",
                                     "Unable to receive stock: no available in-transit quantity for this product")]}
               ELSE
                 LET currentOnHand == inv[k].quantityOnHand
                     currentAvg == inv[k].averageCostGBP
                     newOnHand == jsAdd(currentOnHand, acc.receivedQuantity)
                 IN {[inventory |-> [inv EXCEPT ![k] =
                                       [@ EXCEPT !.quantityOnHand = newOnHand,
                                                 !.averageCostGBP = newAvg,
                                                 !.lastUpdated = now]],
                      transit |-> acc.transit, wrote |-> TRUE, clock |-> now,
                      ret |-> Returned("receive",
                               [productId |-> productId,
                                receivedQuantity |-> acc.receivedQuantity,
                                remainingRequestedQuantity |-> acc.remainingToReceive,
                                newQuantityOnHand |-> newOnHand,
                                newAverageCostGBP |-> newAvg,
                                affectedTransitIds |-> acc.affectedTransitIds])] :
                       newAvg \in NewAverage(currentOnHand, currentAvg,
                                             acc.incomingTotalValue, newOnHand)}


\* ------------------------------------------------------------- add barcode
MaxBarcodeLen == 128

\* Mutation: the barcode as given, not the trimmed one, is looked up.
AddBarcodeOutcomeLooksUpRaw(productId, barcode, now) ==
  LET trimmed == IF barcode = Null THEN <<>> ELSE trim(barcode)
      same(error) == [products |-> products, wrote |-> FALSE, clock |-> clock,
                      ret |-> Thrown("addBarcode", error)]
      i == FindIndex([ix \in DOMAIN products |-> products[ix].id = productId])
  IN IF productId = NoId THEN same("productId is required")
     ELSE IF trimmed = <<>> THEN same("Barcode is required")
     ELSE IF Len(trimmed) > MaxBarcodeLen THEN same("Barcode is too long")
     ELSE IF i = 0 THEN same("Product not found")
     ELSE IF Includes(products[i].barcodes, barcode)
     THEN [products |-> products, wrote |-> FALSE, clock |-> clock,
           ret |-> Returned("addBarcode", products[i])]
     ELSE LET updated == [products[i] EXCEPT !.barcodes = Append(@, trimmed),
                                              !.updatedAt = now]
          IN [products |-> [products EXCEPT ![i] = updated], wrote |-> TRUE, clock |-> now,
              ret |-> Returned("addBarcode", updated)]
\* addBarcodeToProduct: the outcome on the in-memory data.
AddBarcodeOutcome(productId, barcode, now) ==
  LET trimmed == IF barcode = Null THEN <<>> ELSE trim(barcode)
      same(error) == [products |-> products, wrote |-> FALSE, clock |-> clock,
                      ret |-> Thrown("addBarcode", error)]
      i == FindIndex([ix \in DOMAIN products |-> products[ix].id = productId])
  IN IF productId = NoId THEN same("productId is required")
     ELSE IF trimmed = <<>> THEN same("Barcode is required")
     ELSE IF Len(trimmed) > MaxBarcodeLen THEN same("Barcode is too long")
     ELSE IF i = 0 THEN same("Product not found")
     ELSE IF Includes(products[i].barcodes, trimmed)
     THEN [products |-> products, wrote |-> FALSE, clock |-> clock,
           ret |-> Returned("addBarcode", products[i])]
     ELSE LET updated == [products[i] EXCEPT !.barcodes = Append(@, trimmed),
                                              !.updatedAt = now]
          IN [products |-> [products EXCEPT ![i] = updated], wrote |-> TRUE, clock |-> now,
              ret |-> Returned("addBarcode", updated)]

\* ---------------------------------------------------------------- snapshot
RECURSIVE SumRemaining(_, _)
SumRemaining(trans, idxs) ==
  IF idxs = <<>> THEN 0
  ELSE jsAdd(SumRemaining(trans, SubSeq(idxs, 1, Len(idxs) - 1)),
             trans[idxs[Len(idxs)]].remainingQuantity)

\* Mutation: the transit of every product is summed.
QuantityInTransitOfAllProducts(trans, productId) ==
  SumRemaining(trans,
    FilterIdx([ix \in DOMAIN trans |-> jsGt(trans[ix].remainingQuantity, 0)], 1))
\* quantityInTransit of a product: the sum of the positive remaining
\* quantities of its transit records.
QuantityInTransit(trans, productId) ==
  SumRemaining(trans,
    FilterIdx([ix \in DOMAIN trans |->
                 trans[ix].productId = productId /\ jsGt(trans[ix].remainingQuantity, 0)], 1))

\* getInventorySnapshot.  A missing inventory record (null) is the empty
\* sequence, a present one the one-element sequence.
getInventorySnapshot ==
  [n \in DOMAIN products |->
     LET k == FindIndex([ix \in DOMAIN inventory |-> inventory[ix].productId = products[n].id])
     IN [product |-> products[n],
         inventory |-> IF k = 0 THEN <<>> ELSE <<inventory[k]>>,
         quantityInTransit |-> QuantityInTransit(transit, products[n].id)]]

\* ------------------------------------------------------------- call inputs
\* The lines of a purchase order as createPOLines returns them: each with an
\* id of its own.
LineId(purchaseOrderId, k) == (purchaseOrderId - 1) * (MaxLines + 1) + k
WithIds(purchaseOrderId, lines) ==
  [k \in DOMAIN lines |->
     [id |-> LineId(purchaseOrderId, k), description |-> lines[k].description,
      supplierSku |-> lines[k].supplierSku, quantity |-> lines[k].quantity,
      unitCostExVAT |-> lines[k].unitCostExVAT]]

SeqsUpTo(S, n) == UNION {[1..k -> S] : k \in 0..n}

ProductIdInputs == 0..(MaxProducts + 1)
ReceiveQuantities == {Num(2), Num(6), Num(0), Num(Infinity), Num(NaN), NotANumber}
BarcodeInputs == {SkuA1Alt, Blank}

\* ----------------------------------------------------------------- actions
Init ==
  /\ products = <<>>
  /\ inventory = <<>>
  /\ transit = <<>>
  /\ disk = createDefaultDatabase
  /\ clock = 0
  /\ calls = 0
  /\ ret = Returned("init", <<>>)
  /\ args = <<>>
  /\ purchaseOrders = <<>>
  /\ orderLines = <<>>
  /\ pending = <<>>

\* One more call, of at most max.
Called(max) == calls < max /\ calls' = calls + 1

\* A sync of up to MaxLines lines of LineSet; keep says whether args keeps
\* the parameters.
Sync(LineSet, max, keep) ==
  /\ Called(max)
  /\ \E supplierId \in SupplierIds, purchaseOrderId \in PurchaseOrderIds,
           lines \in SeqsUpTo(LineSet, MaxLines) :
       \E out \in SyncOutcomes(supplierId, purchaseOrderId, WithIds(purchaseOrderId, lines)) :
         /\ args' = IF keep
                    THEN [supplierId |-> supplierId, purchaseOrderId |-> purchaseOrderId,
                          poLines |-> WithIds(purchaseOrderId, lines)]
                    ELSE <<>>
         /\ Len(out.products) <= MaxProducts
         /\ Len(out.transit) <= MaxTransit
         /\ products' = out.products
         /\ transit' = out.transit
         /\ clock' = out.clock
         /\ disk' = Written(out.products, inventory, out.transit)
         /\ ret' = Returned("sync", [productsCreated |-> out.productsCreated,
                                      productsMatched |-> out.productsMatched,
                                      transitCreated |-> out.transitCreated])
         /\ UNCHANGED <<inventory, purchaseOrders, orderLines, pending>>

Receive ==
  /\ Called(MaxCalls)
  /\ \E productId \in ProductIdInputs, quantity \in ReceiveQuantities, now \in clock..MaxTime :
       \E out \in ReceiveOutcomes(productId, quantity, now) :
         /\ \A k \in DOMAIN out.inventory : out.inventory[k].quantityOnHand <= MaxOnHand
         /\ inventory' = out.inventory
         /\ transit' = out.transit
         /\ clock' = out.clock
         /\ disk' = IF out.wrote THEN Written(products, out.inventory, out.transit) ELSE disk
         /\ ret' = out.ret
         /\ UNCHANGED <<products, args, purchaseOrders, orderLines, pending>>

AddBarcode ==
  /\ Called(MaxCalls)
  /\ \E productId \in ProductIdInputs, barcode \in BarcodeInputs, now \in clock..MaxTime :
       LET out == AddBarcodeOutcome(productId, barcode, now)
       IN /\ products' = out.products
          /\ clock' = out.clock
          /\ disk' = IF out.wrote THEN Written(out.products, inventory, transit) ELSE disk
          /\ ret' = out.ret
          /\ UNCHANGED <<inventory, transit, args, purchaseOrders, orderLines, pending>>

Snapshot ==
  /\ Called(MaxCalls)
  /\ ret' = Returned("snapshot", getInventorySnapshot)
  /\ UNCHANGED <<products, inventory, transit, disk, clock, args, purchaseOrders, orderLines, pending>>

SyncMain == Sync(MainLines, MaxCalls, FALSE)

Next ==
  \/ SyncMain
  \/ Receive
  \/ AddBarcode
  \/ Snapshot

Spec == Init /\ [][Next]_vars


\* Purchase-order syncs alone, over the malformed lines as well.
SyncNext == Sync(SyncLines, MaxSyncCalls, TRUE)

SyncSpec == Init /\ [][SyncNext]_vars

\* Syncs of the matching lines and barcode additions, the parameters of a
\* sync kept in args.
SyncMatch == Sync(MatchLines, MaxCalls, TRUE)

MatchNext ==
  \/ SyncMatch
  \/ AddBarcode

MatchSpec == Init /\ [][MatchNext]_vars


\* --------------------------------------------------- lines without a SKU
\* Syncs of lines that carry a description only: two spellings of one name,
\* a second name, and a description made of a stop word.
DescriptionLines ==
  { Line(RedFox, Null, Num(1), Num(GBP)),
    Line(RedFoxAlt, Null, Num(1), Num(GBP)),
    Line(RedCub, Null, Num(1), Num(GBP)),
    Line(BoxOnly, Null, Num(1), Num(GBP)) }

SyncDescriptions == Sync(DescriptionLines, MaxSyncCalls, TRUE)

DescriptionNext == SyncDescriptions

DescriptionSpec == Init /\ [][DescriptionNext]_vars

\* ------------------------------------------------- purchase orders, backfill
\* The lines of the historical purchase orders.
BackfillLines ==
  { Line(RedFox, Null, Num(5), Num(2 * GBP)),
    Line(RedFox, Null, Num(0), Num(2 * GBP)) }

\* createPurchaseOrder: the order pushed, with a fresh id.
NewPurchaseOrder(id, supplierId, now) ==
  [id |-> id, supplierId |-> supplierId, createdAt |-> now]

\* createPOLines: the rows pushed for the lines given, each with a fresh id.
NewPOLines(rows, purchaseOrderId, lines) ==
  [k \in DOMAIN lines |->
     [id |-> Len(rows) + k, purchaseOrderId |-> purchaseOrderId,
      description |-> lines[k].description, supplierSku |-> lines[k].supplierSku,
      quantity |-> lines[k].quantity, unitCostExVAT |-> lines[k].unitCostExVAT]]

\* linesByPo.get(po.id) || []: the rows of an order, in store order.
LinesByPo(rows, purchaseOrderId) ==
  SelectSeq(rows, LAMBDA line : line.purchaseOrderId = purchaseOrderId)

\* Mutation: no order counts as synced already.
PoIdsWithTransitNone(existingTransit) == {}
\* new Set(existingTransit.map((t) => t.purchaseOrderId))
PoIdsWithTransit(existingTransit) ==
  {existingTransit[i].purchaseOrderId : i \in DOMAIN existingTransit}

\* The loop over purchaseOrders of the backfill route, from order k on.  run
\* carries the data in memory, the totals and the syncs made so far;
\* poIdsWithTransit is the set computed before the loop.
RECURSIVE BackfillLoop(_, _, _)
BackfillLoop(run, k, poIdsWithTransit) ==
  IF k > Len(purchaseOrders) THEN {run}
  ELSE LET po == purchaseOrders[k]
           lines == LinesByPo(orderLines, po.id)
       IN IF Len(lines) = 0 THEN BackfillLoop(run, k + 1, poIdsWithTransit)
          ELSE IF po.id \in poIdsWithTransit
          THEN BackfillLoop(run, k + 1, poIdsWithTransit)
          ELSE UNION
            {BackfillLoop(
               [products |-> result.products, transit |-> result.transit,
                clock |-> result.clock,
                purchaseOrdersProcessed |-> run.purchaseOrdersProcessed + 1,
                productsCreated |-> run.productsCreated + result.productsCreated,
                productsMatched |-> run.productsMatched + result.productsMatched,
                transitCreated |-> run.transitCreated + result.transitCreated,
                synced |-> Append(run.synced,
                                  [supplierId |-> po.supplierId, purchaseOrderId |-> po.id,
                                   poLines |-> lines])],
               k + 1, poIdsWithTransit) :
             result \in ProcessLines([products |-> run.products, transit |-> run.transit,
                                      clock |-> run.clock, productsCreated |-> 0,
                                      productsMatched |-> 0, transitCreated |-> 0,
                                      resolved |-> <<>>],
                                     lines, po.supplierId, po.id)}

\* GET of the backfill route: db.read() loads the file, then the loop.
BackfillOutcomes ==
  BackfillLoop([products |-> disk.products, transit |-> disk.transit, clock |-> clock,
                purchaseOrdersProcessed |-> 0, productsCreated |-> 0,
                productsMatched |-> 0, transitCreated |-> 0, synced |-> <<>>],
               1, PoIdsWithTransit(disk.transit))

CreatePurchaseOrder ==
  /\ Called(MaxBackfillCalls)
  /\ Len(purchaseOrders) < MaxOrders
  /\ \E supplierId \in SupplierIds, now \in clock..MaxTime :
       /\ purchaseOrders' =
            Append(purchaseOrders, NewPurchaseOrder(Len(purchaseOrders) + 1, supplierId, now))
       /\ clock' = now
       /\ disk' = Written(products, inventory, transit)
       /\ ret' = Returned("createPurchaseOrder", Len(purchaseOrders) + 1)
       /\ args' = <<>>
       /\ UNCHANGED <<products, inventory, transit, orderLines, pending>>

CreatePOLines ==
  /\ Called(MaxBackfillCalls)
  /\ \E k \in DOMAIN purchaseOrders, lines \in SeqsUpTo(BackfillLines, MaxLines) :
       LET newLines == NewPOLines(orderLines, purchaseOrders[k].id, lines)
       IN /\ Len(orderLines) + Len(lines) <= MaxOrders * MaxLines
          /\ orderLines' = orderLines \o newLines
          /\ disk' = Written(products, inventory, transit)
          /\ ret' = Returned("createPOLines", newLines)
          /\ args' = <<>>
          /\ UNCHANGED <<products, inventory, transit, clock, purchaseOrders, pending>>

\* POST of the purchase-order route: the order, its lines and their sync.
SavePurchaseOrder ==
  /\ Called(MaxBackfillCalls)
  /\ Len(purchaseOrders) < MaxOrders
  /\ \E supplierId \in SupplierIds, lines \in SeqsUpTo(BackfillLines, MaxLines),
        now \in clock..MaxTime :
       IF Len(lines) = 0
       THEN /\ ret' = Thrown("savePurchaseOrder", "At least one line item is required")
            /\ args' = <<>>
            /\ UNCHANGED <<products, inventory, transit, disk, clock, purchaseOrders, orderLines, pending>>
       ELSE LET purchaseOrderId == Len(purchaseOrders) + 1
                poLines == NewPOLines(orderLines, purchaseOrderId, lines)
            IN /\ Len(orderLines) + Len(lines) <= MaxOrders * MaxLines
               /\ \E out \in ProcessLines([products |-> products, transit |-> transit,
                                           clock |-> now, productsCreated |-> 0,
                                           productsMatched |-> 0, transitCreated |-> 0,
                                           resolved |-> <<>>],
                                          poLines, supplierId, purchaseOrderId) :
                    /\ Len(out.products) <= MaxProducts
                    /\ Len(out.transit) <= MaxTransit
                    /\ purchaseOrders' =
                         Append(purchaseOrders, NewPurchaseOrder(purchaseOrderId, supplierId, now))
                    /\ orderLines' = orderLines \o poLines
                    /\ products' = out.products
                    /\ transit' = out.transit
                    /\ clock' = out.clock
                    /\ disk' = Written(out.products, inventory, out.transit)
                    /\ ret' = Returned("savePurchaseOrder",
                                       [productsCreated |-> out.productsCreated,
                                        productsMatched |-> out.productsMatched,
                                        transitCreated |-> out.transitCreated])
                    /\ args' = [supplierId |-> supplierId, purchaseOrderId |-> purchaseOrderId,
                                poLines |-> poLines]
                    /\ UNCHANGED <<inventory, pending>>

Backfill ==
  /\ Called(MaxBackfillCalls)
  /\ \E out \in BackfillOutcomes :
       /\ Len(out.products) <= MaxProducts
       /\ Len(out.transit) <= MaxTransit
       /\ products' = out.products
       /\ inventory' = disk.inventory
       /\ transit' = out.transit
       /\ clock' = out.clock
       /\ disk' = IF out.synced = <<>> THEN disk
                  ELSE Written(out.products, disk.inventory, out.transit)
       /\ ret' = Returned("backfill",
                          [purchaseOrdersProcessed |-> out.purchaseOrdersProcessed,
                           productsCreated |-> out.productsCreated,
                           productsMatched |-> out.productsMatched,
                           transitCreated |-> out.transitCreated])
       /\ args' = out.synced
       /\ UNCHANGED <<purchaseOrders, orderLines, pending>>

BackfillNext ==
  \/ CreatePurchaseOrder
  \/ CreatePOLines
  \/ SavePurchaseOrder
  \/ Backfill

BackfillSpec == Init /\ [][BackfillNext]_vars

\* ------------------------------------------------------- token similarity
\* computeTokenSimilarity applied to every pair of token sequences of up to
\* MaxTokens tokens.
TokenInputs == {RedOnly, <<"f", "o", "x">>, <<"c", "u", "b">>}
TokenSeqs == SeqsUpTo(TokenInputs, MaxTokens)

SimilarityInit ==
  /\ Init!1 /\ Init!2 /\ Init!3 /\ Init!4 /\ Init!5 /\ Init!6 /\ Init!7
  /\ args \in [aTokens : TokenSeqs, bTokens : TokenSeqs]
  /\ purchaseOrders = <<>>
  /\ orderLines = <<>>
  /\ pending = <<>>

ComputeSimilarity ==
  /\ Called(1)
  /\ ret' = Returned("computeTokenSimilarity",
                     computeTokenSimilarity(args.aTokens, args.bTokens))
  /\ UNCHANGED <<products, inventory, transit, disk, clock, args, purchaseOrders, orderLines, pending>>

SimilarityNext == ComputeSimilarity

SimilaritySpec == SimilarityInit /\ [][SimilarityNext]_vars

\* ------------------------------------------------------ interleaved calls
\* MaxTasks calls of receiveStockForProduct and syncInventoryFromPurchaseOrder
\* on the event loop.  A call runs from one await to the next without
\* interruption: from the call to `await getDb()`, from there to
\* `await database.write()`, and from there to its return.
Tasks == 1..MaxTasks
ConcurrentLines ==
  { Line(RedFox, Null, Num(5), Num(2 * GBP)),
    Line(RedFoxAlt, Null, Num(3), Num(3 * GBP)) }
ConcurrentQuantities == {Num(2), Num(6), Num(0)}
ConcurrentProductIds == 1..2

Task(op, pc, params, result, written) ==
  [op |-> op, pc |-> pc, params |-> params, ret |-> result, written |-> written]
Idle == Task("none", "idle", <<>>, Returned("none", <<>>), <<>>)

ConcurrentInit ==
  /\ products = <<>>
  /\ inventory = <<>>
  /\ transit = <<>>
  /\ disk = createDefaultDatabase
  /\ clock = 0
  /\ calls = 0
  /\ ret = Returned("init", <<>>)
  /\ args = <<>>
  /\ purchaseOrders = <<>>
  /\ orderLines = <<>>
  /\ pending = [id \in Tasks |-> Idle]

\* receiveStockForProduct up to `await getDb()`: the parameters are checked
\* before the store is asked for.
StartReceive ==
  \E id \in Tasks, productId \in ConcurrentProductIds, quantity \in ConcurrentQuantities :
    /\ pending[id].pc = "idle"
    /\ (id > 1 => pending[id - 1].pc # "idle")   \* calls are numbered as they are made
    /\ LET params == [productId |-> productId, quantity |-> quantity]
       IN pending' = [pending EXCEPT ![id] =
            IF productId = NoId
            THEN Task("receive", "done", params, Thrown("receive", "productId is required"), <<>>)
            ELSE IF quantity.type # "number" \/ ~IsFinite(quantity.val) \/ quantity.val <= 0
            THEN Task("receive", "done", params,
                      Thrown("receive", "Quantity must be a positive number"), <<>>)
            ELSE Task("receive", "awaitStore", params, Returned("none", <<>>), <<>>)]
    /\ UNCHANGED <<products, inventory, transit, disk, clock, calls, ret, args,
                   purchaseOrders, orderLines>>

\* receiveStockForProduct from `await getDb()` to `await database.write()` or
\* to the throw.
RunReceive ==
  \E id \in Tasks, now \in clock..MaxTime :
    /\ pending[id].op = "receive" /\ pending[id].pc = "awaitStore"
    /\ \E out \in ReceiveOutcomes(pending[id].params.productId, pending[id].params.quantity, now) :
         /\ \A k \in DOMAIN out.inventory : out.inventory[k].quantityOnHand <= MaxOnHand
         /\ inventory' = out.inventory
         /\ transit' = out.transit
         /\ clock' = out.clock
         /\ pending' = [pending EXCEPT ![id] =
              IF out.wrote
              THEN Task("receive", "awaitWrite", @.params, out.ret,
                        Written(products, out.inventory, out.transit))
              ELSE Task("receive", "done", @.params, out.ret, <<>>)]
    /\ UNCHANGED <<products, disk, calls, ret, args, purchaseOrders, orderLines>>

\* syncInventoryFromPurchaseOrder up to `await getDb()`.
StartSync ==
  \E id \in Tasks, supplierId \in SupplierIds, purchaseOrderId \in PurchaseOrderIds,
     lines \in SeqsUpTo(ConcurrentLines, 1) :
    /\ pending[id].pc = "idle"
    /\ (id > 1 => pending[id - 1].pc # "idle")   \* calls are numbered as they are made
    /\ pending' = [pending EXCEPT ![id] =
         Task("sync", "awaitStore",
              [supplierId |-> supplierId, purchaseOrderId |-> purchaseOrderId,
               poLines |-> WithIds(purchaseOrderId, lines)],
              Returned("none", <<>>), <<>>)]
    /\ UNCHANGED <<products, inventory, transit, disk, clock, calls, ret, args,
                   purchaseOrders, orderLines>>

\* syncInventoryFromPurchaseOrder from `await getDb()` to
\* `await database.write()`.
RunSync ==
  \E id \in Tasks :
    /\ pending[id].op = "sync" /\ pending[id].pc = "awaitStore"
    /\ \E out \in SyncOutcomes(pending[id].params.supplierId,
                               pending[id].params.purchaseOrderId,
                               pending[id].params.poLines) :
         /\ Len(out.products) <= MaxProducts
         /\ Len(out.transit) <= MaxTransit
         /\ products' = out.products
         /\ transit' = out.transit
         /\ clock' = out.clock
         /\ pending' = [pending EXCEPT ![id] =
              Task("sync", "awaitWrite", @.params,
                   Returned("sync", [productsCreated |-> out.productsCreated,
                                     productsMatched |-> out.productsMatched,
                                     transitCreated |-> out.transitCreated]),
                   Written(out.products, inventory, out.transit))]
    /\ UNCHANGED <<inventory, disk, calls, ret, args, purchaseOrders, orderLines>>

\* The write has been made and the call returns: the file holds what was
\* handed to database.write().
FinishCall ==
  \E id \in Tasks :
    /\ pending[id].pc = "awaitWrite"
    /\ disk' = pending[id].written
    /\ ret' = pending[id].ret
    /\ pending' = [pending EXCEPT ![id].pc = "done"]
    /\ UNCHANGED <<products, inventory, transit, clock, calls, args,
                   purchaseOrders, orderLines>>

ConcurrentNext ==
  \/ StartReceive
  \/ RunReceive
  \/ StartSync
  \/ RunSync
  \/ FinishCall

ConcurrentSpec == ConcurrentInit /\ [][ConcurrentNext]_vars

\* ------------------------------------------------ interleaved backfill runs
\* MaxRuns requests of GET /api/inventory/backfill on the event loop.  A run is
\* suspended at `await db.read()`, and in each sync it awaits at
\* `await getDb()` and at `await database.write()`.  The purchase orders and
\* their lines are created before the first run starts.
Runs == 1..MaxRuns

NoRunStarted == \A id \in DOMAIN pending : pending[id].pc = "idle"

Totals(processed, created, matched, made) ==
  [purchaseOrdersProcessed |-> processed, productsCreated |-> created,
   productsMatched |-> matched, transitCreated |-> made]

\* The loop of the route from order k on, up to the next order it syncs: the
\* index of that order, or Len(purchaseOrders) + 1 when the loop ends.
RECURSIVE NextToSync(_, _)
NextToSync(k, poIdsWithTransit) ==
  IF k > Len(purchaseOrders) THEN k
  ELSE IF Len(LinesByPo(orderLines, purchaseOrders[k].id)) = 0
       THEN NextToSync(k + 1, poIdsWithTransit)
       ELSE IF purchaseOrders[k].id \in poIdsWithTransit
            THEN NextToSync(k + 1, poIdsWithTransit)
            ELSE k

\* A run after its loop went on from order k: awaiting the store of its next
\* sync, or returned.
RunFrom(run, k, totals) ==
  LET next == NextToSync(k, run.params.poIdsWithTransit)
  IN IF next > Len(purchaseOrders)
     THEN Task("backfill", "done", [run.params EXCEPT !.k = next, !.totals = totals],
               Returned("backfill", totals), <<>>)
     ELSE Task("backfill", "awaitStore", [run.params EXCEPT !.k = next, !.totals = totals],
               run.ret, <<>>)

RaceInit ==
  /\ Init!1 /\ Init!2 /\ Init!3 /\ Init!4 /\ Init!5 /\ Init!6 /\ Init!7 /\ Init!8
  /\ purchaseOrders = <<>>
  /\ orderLines = <<>>
  /\ pending = [id \in Runs |-> Idle]

RaceCreatePurchaseOrder == NoRunStarted /\ CreatePurchaseOrder

RaceCreatePOLines == NoRunStarted /\ CreatePOLines

\* GET up to `await db.read()`.
StartBackfill ==
  \E id \in Runs :
    /\ pending[id].pc = "idle"
    /\ (id > 1 => pending[id - 1].pc # "idle")   \* runs are numbered as they start
    /\ pending' = [pending EXCEPT ![id] =
         Task("backfill", "awaitRead", <<>>, Returned("none", <<>>), <<>>)]
    /\ UNCHANGED <<products, inventory, transit, disk, clock, calls, ret, args,
                   purchaseOrders, orderLines>>

\* db.read() has loaded the file; the set of synced orders is computed and
\* the loop runs to the `await getDb()` of its first sync.
LoadBackfill ==
  \E id \in Runs :
    /\ pending[id].pc = "awaitRead"
    /\ products' = disk.products
    /\ inventory' = disk.inventory
    /\ transit' = disk.transit
    /\ pending' = [pending EXCEPT ![id] =
         RunFrom(Task("backfill", "awaitRead",
                      [poIdsWithTransit |-> PoIdsWithTransit(disk.transit), k |-> 1,
                       totals |-> Totals(0, 0, 0, 0)],
                      Returned("none", <<>>), <<>>),
                 1, Totals(0, 0, 0, 0))]
    /\ ret' = IF pending'[id].pc = "done" THEN pending'[id].ret ELSE ret
    /\ UNCHANGED <<disk, clock, calls, args, purchaseOrders, orderLines>>

\* The sync of order k from `await getDb()` to `await database.write()`.
RunBackfillSync ==
  \E id \in Runs :
    /\ pending[id].op = "backfill" /\ pending[id].pc = "awaitStore"
    /\ LET po == purchaseOrders[pending[id].params.k]
       IN \E out \in SyncOutcomes(po.supplierId, po.id, LinesByPo(orderLines, po.id)) :
            /\ Len(out.products) <= MaxProducts
            /\ Len(out.transit) <= MaxTransit
            /\ products' = out.products
            /\ transit' = out.transit
            /\ clock' = out.clock
            /\ pending' = [pending EXCEPT ![id] =
                 Task("backfill", "awaitWrite", @.params,
                      Returned("sync", [productsCreated |-> out.productsCreated,
                                        productsMatched |-> out.productsMatched,
                                        transitCreated |-> out.transitCreated]),
                      Written(out.products, inventory, out.transit))]
    /\ UNCHANGED <<inventory, disk, calls, ret, args, purchaseOrders, orderLines>>

\* The write of the sync has been made; the totals are added up and the loop
\* goes on to its next sync or to the response.
FinishBackfillSync ==
  \E id \in Runs :
    /\ pending[id].op = "backfill" /\ pending[id].pc = "awaitWrite"
    /\ disk' = pending[id].written
    /\ LET result == pending[id].ret.value
           before == pending[id].params.totals
       IN pending' = [pending EXCEPT ![id] =
            RunFrom(@, @.params.k + 1,
                    Totals(before.purchaseOrdersProcessed + 1,
                           before.productsCreated + result.productsCreated,
                           before.productsMatched + result.productsMatched,
                           before.transitCreated + result.transitCreated))]
    /\ ret' = IF pending'[id].pc = "done" THEN pending'[id].ret ELSE ret
    /\ UNCHANGED <<products, inventory, transit, clock, calls, args,
                   purchaseOrders, orderLines>>

RaceNext ==
  \/ RaceCreatePurchaseOrder
  \/ RaceCreatePOLines
  \/ StartBackfill
  \/ LoadBackfill
  \/ RunBackfillSync
  \/ FinishBackfillSync

RaceSpec == RaceInit /\ [][RaceNext]_vars

\* ================================================================== claims
ProductExists(productId) == \E n \in DOMAIN products : products[n].id = productId
ReceiveSucceeded == ret.op = "receive" /\ ret.error = ""
InsufficientTransitErrors ==
  {"No in-transit quantity available for this product",
   "Unable to receive stock: no available in-transit quantity for this product"}
ValidReceiveQuantities ==
  {q \in ReceiveQuantities : q.type = "number" /\ IsFinite(q.val) /\ q.val > 0}

\* C1: in every reachable state the status of every transit record is the
\* function of its quantities: received iff remaining = 0, partially_received
\* iff 0 < remaining < quantity, in_transit iff remaining = quantity.
C1_StatusIsFunctionOfQuantities ==
  \A i \in DOMAIN transit :
    LET t == transit[i]
    IN /\ (t.status = "received") <=> (t.remainingQuantity = 0)
       /\ (t.status = "partially_received") <=>
            (0 < t.remainingQuantity /\ t.remainingQuantity < t.quantity)
       /\ (t.status = "in_transit") <=> (t.remainingQuantity = t.quantity)

\* C2: in every reachable state every transit record has
\* 0 <= remainingQuantity <= quantity.
C2_RemainingWithinQuantity ==
  \A i \in DOMAIN transit :
    /\ transit[i].remainingQuantity # NaN
    /\ 0 <= transit[i].remainingQuantity
    /\ transit[i].remainingQuantity <= transit[i].quantity

\* C2 witness: a receipt has left a record partly consumed.
C2_Witness ==
  /\ ReceiveSucceeded
  /\ \E i \in DOMAIN transit :
       0 < transit[i].remainingQuantity /\ transit[i].remainingQuantity < transit[i].quantity

\* j was created before i: earlier createdAt, or earlier in store order when
\* the createdAt are equal.
CreatedBefore(j, i) ==
  \/ transit[j].createdAt < transit[i].createdAt
  \/ transit[j].createdAt = transit[i].createdAt /\ j < i
TransitIndexOf(id) == CHOOSE i \in DOMAIN transit : transit[i].id = id

C3_FifoStep ==
  (ret'.op = "receive" /\ ret'.error = "") =>
    LET productId == ret'.value.productId
        affected == ret'.value.affectedTransitIds
    IN /\ DOMAIN transit' = DOMAIN transit
       /\ \A i, j \in DOMAIN transit :
            ( /\ transit[i].productId = productId
              /\ transit[j].productId = productId
              /\ transit[j].remainingQuantity > 0
              /\ CreatedBefore(j, i)
              /\ transit'[i].remainingQuantity < transit[i].remainingQuantity )
            => transit'[j].remainingQuantity = 0
       /\ \A n \in 1..(Len(affected) - 1) :
            transit'[TransitIndexOf(affected[n])].remainingQuantity = 0
       /\ \A i \in DOMAIN transit :
            transit'[i] # transit[i] => Includes(affected, transit[i].id)

\* C3: a successful receive consumes a product's open transit records oldest
\* first: a record is reduced only if every open record of the product
\* created before it is now at 0, and all affected records but the last are
\* fully consumed.
C3_Fifo == [][C3_FifoStep]_vars

\* C3 witness: open records of 5 and 3, receive 6: the older one is received,
\* the newer one is left partially received with 2.
C3_Witness ==
  /\ ReceiveSucceeded
  /\ ret.value.receivedQuantity = 6
  /\ Len(transit) = 2
  /\ ret.value.affectedTransitIds = <<transit[1].id, transit[2].id>>
  /\ transit[1].productId = transit[2].productId
  /\ transit[1].quantity = 5 /\ transit[1].remainingQuantity = 0
  /\ transit[1].status = "received"
  /\ transit[2].quantity = 3 /\ transit[2].remainingQuantity = 2
  /\ transit[2].status = "partially_received"

\* C4: with a valid quantity q, an existing product and T > 0 in open
\* transit, receive succeeds with receivedQuantity = min(q, T) and the
\* remainder q - receivedQuantity, never failing because q > T; afterwards the
\* product's remaining transit is T - min(q, T), and when q >= T every record
\* of the product is received.
C4_ReceiveCappedAtTransit ==
  \A productId \in ProductIdInputs, quantity \in ValidReceiveQuantities, now \in clock..MaxTime :
    LET T == QuantityInTransit(transit, productId)
        q == quantity.val
    IN (ProductExists(productId) /\ T > 0) =>
         \A out \in ReceiveOutcomes(productId, quantity, now) :
           /\ out.ret.error = ""
           /\ out.ret.value.receivedQuantity = (IF q <= T THEN q ELSE T)
           /\ out.ret.value.remainingRequestedQuantity = q - out.ret.value.receivedQuantity
           /\ QuantityInTransit(out.transit, productId)
                = (IF T = Infinity THEN Infinity ELSE T - out.ret.value.receivedQuantity)
           /\ q >= T =>
                \A i \in DOMAIN out.transit :
                  out.transit[i].productId = productId =>
                    /\ out.transit[i].status = "received"
                    /\ out.transit[i].remainingQuantity = 0

\* C4 witness: a receipt asked for more than was in transit and was capped.
C4_Witness ==
  /\ ReceiveSucceeded
  /\ ret.value.receivedQuantity > 0
  /\ ret.value.remainingRequestedQuantity > 0
  /\ QuantityInTransit(transit, ret.value.productId) = 0

\* C5: receive for an existing product with no open transit fails with the
\* insufficient-transit error whatever valid quantity is asked for; no
\* receive succeeds with a received quantity of 0.
C5_NoTransitFails ==
  /\ \A productId \in ProductIdInputs, quantity \in ValidReceiveQuantities, now \in clock..MaxTime :
       ( /\ ProductExists(productId)
         /\ ~\E i \in DOMAIN transit :
               transit[i].productId = productId /\ transit[i].remainingQuantity > 0 ) =>
         \A out \in ReceiveOutcomes(productId, quantity, now) :
           out.ret.error \in InsufficientTransitErrors
  /\ ReceiveSucceeded => ret.value.receivedQuantity > 0

\* C5 witness: a receive has failed for want of transit while the product
\* exists.
C5_Witness ==
  /\ ret.op = "receive"
  /\ ret.error \in InsufficientTransitErrors
  /\ products # <<>>

\* C6: a receive call that fails leaves the store exactly as it was before
\* the call, in memory and persisted.
C6_FailedReceiveChangesNothing ==
  [][(ret'.op = "receive" /\ ret'.error # "") =>
       UNCHANGED <<products, inventory, transit, disk>>]_vars

RECURSIVE SumSeq(_)
SumSeq(seq) == IF seq = <<>> THEN 0 ELSE Head(seq) + SumSeq(Tail(seq))
Abs(x) == IF x < 0 THEN -x ELSE x
InventoryOf(inv, productId) ==
  LET k == FindIndex([ix \in DOMAIN inv |-> inv[ix].productId = productId])
  IN IF k = 0 THEN [quantityOnHand |-> 0, averageCostGBP |-> 0] ELSE inv[k]

\* The step of a successful receive: what was taken from each record is the
\* drop of its remainingQuantity; a record of unbounded quantity does not
\* drop, and what was taken from it is the rest of the received quantity.
\* With an unbounded cost in the sum the quotient is unbounded.
C7_AverageStep ==
  (ret'.op = "receive" /\ ret'.error = "") =>
    LET v == ret'.value
        old == InventoryOf(inventory, v.productId)
        new == InventoryOf(inventory', v.productId)
        drop == [i \in DOMAIN transit |->
                   IF transit[i].remainingQuantity = Infinity THEN 0
                   ELSE transit[i].remainingQuantity - transit'[i].remainingQuantity]
        dropValue == [i \in DOMAIN transit |-> drop[i] * transit[i].unitCostGBP]
        rest == v.receivedQuantity - SumSeq(drop)
        restValue == [i \in DOMAIN transit |->
                        IF transit[i].remainingQuantity = Infinity
                           /\ Includes(v.affectedTransitIds, transit[i].id)
                        THEN rest * transit[i].unitCostGBP ELSE 0]
        value == old.quantityOnHand * old.averageCostGBP
                   + SumSeq(dropValue) + SumSeq(restValue)
        unbounded ==
          \/ old.averageCostGBP = Infinity
          \/ \E i \in DOMAIN transit :
               /\ transit[i].unitCostGBP = Infinity
               /\ \/ drop[i] > 0
                  \/ rest > 0 /\ transit[i].remainingQuantity = Infinity
                              /\ Includes(v.affectedTransitIds, transit[i].id)
    IN /\ v.receivedQuantity > 0
       /\ rest >= 0
       /\ rest > 0 => \E i \in DOMAIN transit :
                        /\ transit[i].remainingQuantity = Infinity
                        /\ Includes(v.affectedTransitIds, transit[i].id)
       /\ new.quantityOnHand = old.quantityOnHand + v.receivedQuantity
       /\ v.newQuantityOnHand = new.quantityOnHand
       /\ v.newAverageCostGBP = new.averageCostGBP
       /\ IF unbounded THEN new.averageCostGBP = Infinity
          ELSE 2 * Abs(new.averageCostGBP * new.quantityOnHand - value)
                 <= new.quantityOnHand

\* C7: a successful receive sets the on-hand quantity to the old one plus the
\* received quantity, and the average cost to (old on-hand * old average +
\* the sum over the affected records of consumed * unit cost) / new on-hand,
\* rounded to 4 decimal places.
C7_WeightedAverage == [][C7_AverageStep]_vars

\* C7 witness: 5 at 2.0 and 1 at 3.0 received (6 on hand at 2.1667), then 2
\* more at 3.0: 8 on hand at 2.375.
C7_Witness ==
  /\ ReceiveSucceeded
  /\ ret.value.receivedQuantity = 2
  /\ ret.value.newQuantityOnHand = 8
  /\ ret.value.newAverageCostGBP = 23750
  /\ InventoryOf(inventory, ret.value.productId).averageCostGBP = 23750
  /\ \A i \in DOMAIN transit : transit[i].status = "received"

\* C8: in every reachable state there is at most one inventory record per
\* product.
C8_OneInventoryRecordPerProduct ==
  \A k1, k2 \in DOMAIN inventory :
    inventory[k1].productId = inventory[k2].productId => k1 = k2

\* C8 witness: a second receipt of a product has updated the record of the
\* first.
C8_Witness ==
  /\ ReceiveSucceeded
  /\ ret.value.newQuantityOnHand > ret.value.receivedQuantity
  /\ Cardinality({k \in DOMAIN inventory :
                    inventory[k].productId = ret.value.productId}) = 1

\* Sanitization as a property of the stored values: a quantity is kept when
\* it is a number > 0 and is 0 otherwise; a cost is kept, rounded to 4
\* decimal places, when it is a number >= 0 and is 0 otherwise.  With
\* finiteOnly the number must be finite as well.
SanitizedQuantity(q, finiteOnly) ==
  IF q.type = "number" /\ q.val # NaN /\ (finiteOnly => IsFinite(q.val)) /\ q.val > 0 THEN q.val ELSE 0
IsSanitizedCost(u, c, finiteOnly) ==
  IF c.type = "number" /\ c.val # NaN /\ (finiteOnly => IsFinite(c.val)) /\ c.val >= 0
  THEN IF c.val = Infinity THEN u = Infinity
       ELSE 2 * Abs(u * InputCostScale - c.val) <= InputCostScale
  ELSE u = 0
IsBlank(description) == description = Null \/ trim(description) = <<>>

NonBlankLines(poLines) == {k \in DOMAIN poLines : ~IsBlank(poLines[k].description)}
AddedTransit == (Len(transit) + 1)..Len(transit')

\* The step of a sync with the parameters args': a non-blank line of
\* sanitized quantity <= 0 gets no transit record, is resolved to a product
\* carrying its description as an alias and a supplier, and is counted as
\* matched or created.
ZeroQuantityLinesOnlyResolve(finiteOnly) ==
  ret'.op = "sync" =>
    LET poLines == args'.poLines
        nonBlank == NonBlankLines(poLines)
        zero == {k \in nonBlank : SanitizedQuantity(poLines[k].quantity, finiteOnly) <= 0}
    IN /\ \A k \in zero :
            /\ ~\E i \in AddedTransit : transit'[i].poLineId = poLines[k].id
            /\ \E n \in DOMAIN products' :
                 /\ Includes(products'[n].aliases, trim(poLines[k].description))
                 /\ products'[n].supplierId # NoId
       /\ ret'.value.productsMatched + ret'.value.productsCreated = Cardinality(nonBlank)
       /\ Len(products') = Len(products) + ret'.value.productsCreated

\* C9: for every purchase-order line with a non-blank description whose
\* sanitized quantity (0 unless a finite number > 0) is <= 0, sync creates no
\* transit record, but the line is still resolved to a product and counted in
\* productsMatched or productsCreated.
C9_ZeroQuantityLinesOnlyResolve == [][ZeroQuantityLinesOnlyResolve(TRUE)]_vars

\* The step of a sync with the parameters args': a non-blank line of
\* sanitized quantity > 0 adds exactly one transit record, of that product,
\* order and line, with the sanitized quantity and cost, in transit; a blank
\* line adds no record and no product.
PositiveLinesAddOneTransit(finiteOnly) ==
  ret'.op = "sync" =>
    LET poLines == args'.poLines
        nonBlank == NonBlankLines(poLines)
        positive == {k \in nonBlank : SanitizedQuantity(poLines[k].quantity, finiteOnly) > 0}
    IN /\ Len(transit') >= Len(transit)
       /\ SubSeq(transit', 1, Len(transit)) = transit
       /\ \A k \in positive :
            LET added == {i \in AddedTransit : transit'[i].poLineId = poLines[k].id}
            IN /\ Cardinality(added) = 1
               /\ \A i \in added :
                    LET t == transit'[i]
                    IN /\ t.purchaseOrderId = args'.purchaseOrderId
                       /\ t.quantity = SanitizedQuantity(poLines[k].quantity, finiteOnly)
                       /\ t.remainingQuantity = t.quantity
                       /\ IsSanitizedCost(t.unitCostGBP, poLines[k].unitCostExVAT, finiteOnly)
                       /\ t.status = "in_transit"
                       /\ \E n \in DOMAIN products' :
                            /\ products'[n].id = t.productId
                            /\ Includes(products'[n].aliases, trim(poLines[k].description))
       /\ \A k \in DOMAIN poLines \ nonBlank :
            ~\E i \in AddedTransit : transit'[i].poLineId = poLines[k].id
       /\ nonBlank = {} => products' = products /\ transit' = transit
       /\ Len(products') - Len(products) <= Cardinality(nonBlank)

\* C10: for every line with a non-blank description and sanitized quantity
\* > 0, sync adds exactly one transit record, linked to the product the line
\* resolved to and to the given purchase order and line, with quantity =
\* remainingQuantity = sanitized quantity, unit cost = sanitized cost (0
\* unless finite and >= 0, rounded to 4 places) and status in_transit; lines
\* with a blank description add neither a product nor a transit record.
C10_PositiveLinesAddOneTransit == [][PositiveLinesAddOneTransit(TRUE)]_vars

\* C11: sync sanitizes malformed numbers: every transit record in every
\* reachable state has a finite quantity > 0 and a finite unit cost >= 0.
C11_TransitNumbersFinite ==
  \A i \in DOMAIN transit :
    /\ IsFinite(transit[i].quantity) /\ transit[i].quantity > 0
    /\ IsFinite(transit[i].unitCostGBP) /\ transit[i].unitCostGBP >= 0

\* The first line of a sync is matched against the catalog of the state the
\* call starts in; the product it resolved to is the one of the transit
\* record added for it (every line of MatchLines has a positive quantity).
SyncOfLines == ret'.op = "sync" /\ args'.poLines # <<>>
FirstLine == args'.poLines[1]
FirstLineProductId ==
  transit'[CHOOSE i \in AddedTransit : transit'[i].poLineId = FirstLine.id].productId
FirstLineSku == IF FirstLine.supplierSku = Null THEN <<>> ELSE trim(FirstLine.supplierSku)
SameIgnoringCase(a, b) == a # Null /\ b # Null /\ toLowerCase(a) = toLowerCase(b)
CarriesSku(p, sku) ==
  \/ SameIgnoringCase(p.primarySku, sku)
  \/ SameIgnoringCase(p.supplierSku, sku)
  \/ \E k \in DOMAIN p.barcodes : SameIgnoringCase(p.barcodes[k], sku)
SkuCarriers(prods, sku) ==
  IF sku = <<>> THEN {} ELSE {n \in DOMAIN prods : CarriesSku(prods[n], sku)}
Min(S) == CHOOSE n \in S : \A m \in S : n <= m
ExistingIds == {products[n].id : n \in DOMAIN products}

C12_SkuFirstStep ==
  (SyncOfLines /\ ~IsBlank(FirstLine.description)
     /\ SkuCarriers(products, FirstLineSku) # {}) =>
    FirstLineProductId = products[Min(SkuCarriers(products, FirstLineSku))].id

\* C12: a line whose trimmed supplier SKU equals, ignoring case, the primary
\* SKU, supplier SKU or a barcode of an existing product resolves to the
\* first such product in catalog order, whatever the fuzzy similarity of the
\* other products.
C12_SkuMatchFirst == [][C12_SkuFirstStep]_vars

\* C12 witness: "Red-Fox " with SKU a1 has resolved to the second product,
\* which carries A1, although the first product, without that SKU, has
\* similarity 1 to the description.
C12_Witness ==
  /\ ret.op = "sync"
  /\ args # <<>> /\ Len(args.poLines) = 1
  /\ args.poLines[1].description = RedFoxAlt /\ args.poLines[1].supplierSku = SkuA1
  /\ Len(products) = 2
  /\ ~CarriesSku(products[1], SkuA1) /\ CarriesSku(products[2], SkuA1)
  /\ computeTokenSimilarity(normalizeTextForMatch(trim(RedFoxAlt)),
                            normalizeTextForMatch(products[1].name)) = <<2, 2>>
  /\ ret.value.productsMatched = 1
  /\ transit[Len(transit)].poLineId = args.poLines[1].id
  /\ transit[Len(transit)].productId = products[2].id
  /\ Includes(products[2].aliases, trim(RedFoxAlt))
  /\ ~Includes(products[1].aliases, trim(RedFoxAlt))

\* Jaccard similarity of two texts is at least one half: both token sets are
\* non-empty and twice the intersection is at least the union.
TokenSet(text) == {Tokens(text)[k] : k \in DOMAIN Tokens(text)}
SimilarEnough(a, b) ==
  /\ TokenSet(a) # {} /\ TokenSet(b) # {}
  /\ 2 * Cardinality(TokenSet(a) \cap TokenSet(b))
       >= Cardinality(TokenSet(a) \cup TokenSet(b))
NameOrAliasSimilar(p, description) ==
  \/ SimilarEnough(description, p.name)
  \/ \E k \in DOMAIN p.aliases : SimilarEnough(description, p.aliases[k])
SomeProductSimilar(description) ==
  \E n \in DOMAIN products : NameOrAliasSimilar(products[n], description)

C13_FuzzyStep ==
  (SyncOfLines /\ ~IsBlank(FirstLine.description)
     /\ SkuCarriers(products, FirstLineSku) = {}) =>
    /\ (FirstLineProductId \in ExistingIds)
         <=> SomeProductSimilar(trim(FirstLine.description))
    /\ (~SomeProductSimilar(trim(FirstLine.description))
          /\ Len(args'.poLines) = 1) =>
         /\ ret'.value.productsCreated = 1
         /\ Len(products') = Len(products) + 1
         /\ SubSeq(products', 1, Len(products)) = products

\* C13: a line without an exact SKU match resolves to an existing product
\* exactly when the best Jaccard similarity of its description to a product's
\* name or aliases is at least 1/2; below that a new product is created and
\* no existing product is modified.
C13_FuzzyThreshold == [][C13_FuzzyStep]_vars

\* C13 witness: "red" has matched the product "red fox", whose only alias
\* was "red fox": the similarity was exactly 1/2.
C13_Witness ==
  /\ ret.op = "sync"
  /\ args # <<>> /\ Len(args.poLines) = 1
  /\ args.poLines[1].description = RedOnly /\ args.poLines[1].supplierSku = Null
  /\ ret.value.productsMatched = 1 /\ ret.value.productsCreated = 0
  /\ Len(products) = 1
  /\ products[1].name = RedFox /\ products[1].aliases = <<RedFox, RedOnly>>
  /\ Len(transit) = 2 /\ transit[2].productId = products[1].id

\* Products of the catalog one of whose barcodes equals the SKU ignoring case.
BarcodeCarriers(prods, sku) ==
  IF sku = <<>> THEN {}
  ELSE {n \in DOMAIN prods :
          \E k \in DOMAIN prods[n].barcodes : SameIgnoringCase(prods[n].barcodes[k], sku)}
IsPrefix(s, t) == Len(s) <= Len(t) /\ SubSeq(t, 1, Len(s)) = s

C14_BarcodeStep ==
  /\ \A n \in DOMAIN products :
       n \in DOMAIN products' /\ IsPrefix(products[n].barcodes, products'[n].barcodes)
  /\ (SyncOfLines /\ BarcodeCarriers(products, FirstLineSku) # {}) =>
       LET P == Min(BarcodeCarriers(products, FirstLineSku))
       IN /\ Len(args'.poLines) = 1 =>
               ret'.value.productsCreated = 0 /\ Len(products') = Len(products)
          /\ ~IsBlank(FirstLine.description) =>
               /\ FirstLineProductId \in ExistingIds
               /\ \/ FirstLineProductId = products[P].id
                  \/ \E m \in 1..(P - 1) :
                       /\ CarriesSku(products[m], FirstLineSku)
                       /\ FirstLineProductId = products[m].id

\* C14: a barcode added by addBarcode stays on its product, and a later sync
\* line whose trimmed SKU equals it ignoring case resolves to an existing
\* product (the one with the barcode unless an earlier product carries the
\* value) and creates no product, whatever its description.
C14_BarcodeThenSync == [][C14_BarcodeStep]_vars

\* C14 witness: "box" (no tokens, so no similarity to anything) with SKU
\* "A1 " has resolved to the product that got the barcode "A1" from
\* addBarcode and has neither primary nor supplier SKU.
C14_Witness ==
  /\ ret.op = "sync"
  /\ args # <<>> /\ Len(args.poLines) = 1
  /\ args.poLines[1].description = BoxOnly /\ args.poLines[1].supplierSku = SkuA1Alt
  /\ Len(products) = 1
  /\ products[1].primarySku = Null /\ products[1].supplierSku = Null
  /\ products[1].barcodes = <<trim(SkuA1Alt)>>
  /\ ret.value.productsMatched = 1 /\ ret.value.productsCreated = 0
  /\ products[1].aliases[Len(products[1].aliases)] = BoxOnly
  /\ transit[Len(transit)].productId = products[1].id

NoDuplicates(seq) == \A i, j \in DOMAIN seq : seq[i] = seq[j] => i = j
ProductWithId(prods, id) == prods[CHOOSE n \in DOMAIN prods : prods[n].id = id]
\* The product line k of the sync resolved to, in the state after the call.
LineProduct(k) ==
  ProductWithId(products',
    transit'[CHOOSE i \in AddedTransit : transit'[i].poLineId = args'.poLines[k].id].productId)

C15_AliasStep ==
  /\ \A n \in DOMAIN products :
       /\ n \in DOMAIN products'
       /\ IsPrefix(products[n].aliases, products'[n].aliases)
  /\ \A n \in DOMAIN products' : NoDuplicates(products'[n].aliases)
  /\ ret'.op = "sync" =>
       /\ \A k \in NonBlankLines(args'.poLines) :
            Includes(LineProduct(k).aliases, trim(args'.poLines[k].description))
       /\ (Len(args'.poLines) = 1 /\ ret'.value.productsCreated = 1) =>
            products'[Len(products')].aliases = <<trim(args'.poLines[1].description)>>
       /\ (Len(args'.poLines) = 1 /\ ret'.value.productsMatched = 1) =>
            LET n == CHOOSE n \in DOMAIN products : products[n].id = LineProduct(1).id
                d == trim(args'.poLines[1].description)
            IN products'[n].aliases =
                 IF Includes(products[n].aliases, d) THEN products[n].aliases
                 ELSE Append(products[n].aliases, d)

\* C15: aliases only accumulate: no step removes an alias, no alias list
\* holds the same string twice, and after a sync every non-blank line's
\* trimmed description is an alias of the product the line resolved to
\* (appended on a match if absent, the only alias of a new product).
C15_AliasesAccumulate == [][C15_AliasStep]_vars

\* C15 witness: "Red-Fox " has matched the product "red fox" a second time:
\* the alias "Red-Fox" was appended by the first match and not again.
C15_Witness ==
  /\ ret.op = "sync"
  /\ args # <<>> /\ Len(args.poLines) = 1
  /\ args.poLines[1].description = RedFoxAlt /\ args.poLines[1].supplierSku = SkuA1
  /\ ret.value.productsMatched = 1
  /\ Len(products) = 1 /\ products[1].aliases = <<RedFox, trim(RedFoxAlt)>>
  /\ Len(transit) = 3
  /\ transit[2].productId = products[1].id /\ transit[3].productId = products[1].id
  /\ transit[2].poLineId = transit[3].poLineId

\* The sum of the remaining quantities of a set of transit records.
RECURSIVE SumOfRemaining(_)
SumOfRemaining(S) ==
  IF S = {} THEN 0
  ELSE IF \E i \in S : transit[i].remainingQuantity = Infinity THEN Infinity
  ELSE LET i == CHOOSE i \in S : TRUE
       IN transit[i].remainingQuantity + SumOfRemaining(S \ {i})
OpenRecordsOf(productId) ==
  {i \in DOMAIN transit :
     /\ transit[i].productId = productId
     /\ transit[i].remainingQuantity # NaN /\ transit[i].remainingQuantity > 0}
InventoryRecordsOf(productId) ==
  {i \in DOMAIN inventory : inventory[i].productId = productId}

C16_SnapshotStep ==
  ret'.op = "snapshot" =>
    /\ UNCHANGED <<products, inventory, transit, disk, clock>>
    /\ DOMAIN ret'.value = DOMAIN products
    /\ \A n \in DOMAIN products :
         /\ ret'.value[n].product = products[n]
         /\ ret'.value[n].quantityInTransit = SumOfRemaining(OpenRecordsOf(products[n].id))
         /\ IF InventoryRecordsOf(products[n].id) = {}
            THEN ret'.value[n].inventory = <<>>
            ELSE \E i \in InventoryRecordsOf(products[n].id) :
                   ret'.value[n].inventory = <<inventory[i]>>
    /\ ret.op = "snapshot" => ret'.value = ret.value

\* C16: the snapshot returns one entry per product, in catalog order, with
\* quantityInTransit the sum of the remaining quantities of the product's
\* records that have some left and inventory the product's record or null;
\* it changes no state, and a snapshot right after a snapshot returns the
\* same.
C16_SnapshotReadsOnly == [][C16_SnapshotStep]_vars

\* C16 witness: a snapshot of two products, one without inventory record,
\* the other with stock on hand, a used-up transit record and some left in
\* transit.
C16_Witness ==
  /\ ret.op = "snapshot" /\ Len(ret.value) = 2
  /\ \E n \in DOMAIN ret.value : ret.value[n].inventory = <<>>
  /\ \E m \in DOMAIN ret.value :
       /\ ret.value[m].inventory # <<>>
       /\ ret.value[m].inventory[1].quantityOnHand > 0
       /\ IsFinite(ret.value[m].quantityInTransit) /\ ret.value[m].quantityInTransit > 0
       /\ \E i \in DOMAIN transit :
            transit[i].productId = products[m].id /\ transit[i].remainingQuantity = 0

\* The calls addBarcode(productId, barcode) whose product has the trimmed
\* barcode already.
HasBarcode(productId, barcode) ==
  \E n \in DOMAIN products :
    /\ products[n].id = productId
    /\ Includes(products[n].barcodes, trim(barcode))

C17_AddBarcodeStep ==
  /\ \A productId \in ProductIdInputs, barcode \in BarcodeInputs, now \in clock..MaxTime :
       HasBarcode(productId, barcode) =>
         LET out == AddBarcodeOutcome(productId, barcode, now)
         IN /\ out.products = products /\ ~out.wrote /\ out.clock = clock
            /\ out.ret.error = ""
            /\ out.ret.value = ProductWithId(products, productId)
  /\ ret'.op = "addBarcode" =>
       /\ UNCHANGED <<inventory, transit>>
       /\ products' = products => disk' = disk /\ clock' = clock
       /\ products' # products =>
            \E n \in DOMAIN products :
              /\ ret'.value = products'[n]
              /\ \A m \in DOMAIN products' : m # n => products'[m] = products[m]
              /\ Len(products'[n].barcodes) = Len(products[n].barcodes) + 1
              /\ ~Includes(products[n].barcodes,
                           products'[n].barcodes[Len(products'[n].barcodes)])
  /\ \A n \in DOMAIN products' : NoDuplicates(products'[n].barcodes)

\* C17: addBarcode with a barcode that, trimmed, is already on the product
\* returns the product and changes nothing (barcode list, updatedAt, file);
\* a call that changes the catalog appends one barcode that was absent; no
\* barcode list holds the same string twice.
C17_AddBarcodeIdempotent == [][C17_AddBarcodeStep]_vars

\* C17 witness: addBarcode has returned a product that has the barcode "A1"
\* and was last updated before now: the call found "A1 " present and left
\* updatedAt alone.
C17_Witness ==
  /\ ret.op = "addBarcode" /\ ret.error = ""
  /\ ret.value.barcodes = <<trim(SkuA1Alt)>>
  /\ ret.value.updatedAt < clock
  /\ disk.products = products

\* The receive calls the validation of the parameters rejects.
ReceiveQuantityValid(quantity) ==
  /\ quantity.type = "number"
  /\ quantity.val \notin {NaN, Infinity, -Infinity}
  /\ quantity.val > 0
ReceiveErrors(productId, quantity, now) ==
  {out.ret.error : out \in ReceiveOutcomes(productId, quantity, now)}
ValidationErrors == {"productId is required", "Quantity must be a positive number"}
NotFoundError == "Product not found"

\* What receive answers to each call it can get in the current state.
C18_ErrorOfEachCall ==
  \A productId \in ProductIdInputs, quantity \in ReceiveQuantities :
    LET errors == ReceiveErrors(productId, quantity, clock)
    IN IF productId = NoId THEN errors = {"productId is required"}
       ELSE IF ~ReceiveQuantityValid(quantity)
       THEN errors = {"Quantity must be a positive number"}
       ELSE IF ~ProductExists(productId) THEN errors = {NotFoundError}
       ELSE errors \cap (ValidationErrors \cup {NotFoundError}) = {}

C18_ReceiveErrorStep ==
  (ret'.op = "receive" /\ ret'.error \in ValidationErrors \cup {NotFoundError}) =>
    UNCHANGED <<products, inventory, transit, disk, clock>>

\* C18: receive throws the validation error when productId is empty or the
\* quantity is not a finite number > 0, also when no product has the id;
\* with valid parameters and no such product it throws the not-found error;
\* a call that throws either leaves the state as it was, so only a call with
\* a valid quantity for an existing product can change it.
C18_ReceiveValidatesFirst == []C18_ErrorOfEachCall /\ [][C18_ReceiveErrorStep]_vars

\* C18 witness: receive has thrown the quantity validation error while the
\* catalog was empty, so that no product had the id either.
C18_Witness ==
  /\ ret.op = "receive" /\ ret.error = "Quantity must be a positive number"
  /\ products = <<>> /\ inventory = <<>> /\ disk = createDefaultDatabase

\* The non-blank lines whose quantity is a number > 0.
PositiveLines(poLines) ==
  {k \in NonBlankLines(poLines) :
     /\ poLines[k].quantity.type = "number"
     /\ poLines[k].quantity.val # NaN /\ poLines[k].quantity.val > 0}
\* The quantity in transit of a purchase order.
RECURSIVE SumRemainingOf(_, _)
SumRemainingOf(trans, S) ==
  IF S = {} THEN 0
  ELSE IF \E i \in S : trans[i].remainingQuantity = Infinity THEN Infinity
  ELSE LET i == CHOOSE i \in S : TRUE
       IN trans[i].remainingQuantity + SumRemainingOf(trans, S \ {i})
InTransitOfOrder(trans, purchaseOrderId) ==
  SumRemainingOf(trans, {i \in DOMAIN trans : trans[i].purchaseOrderId = purchaseOrderId})
SameSyncAgain == ret.op = "sync" /\ ret'.op = "sync" /\ args' = args
\* The transit records of the order are those the call just made created.
OnlyFirstSyncOfOrder ==
  Cardinality({i \in DOMAIN transit : transit[i].purchaseOrderId = args.purchaseOrderId})
    = ret.value.transitCreated

C19_SecondSyncStep ==
  SameSyncAgain =>
    /\ ret'.value.transitCreated = ret.value.transitCreated
    /\ Cardinality(AddedTransit) = Cardinality(PositiveLines(args.poLines))
    /\ SubSeq(transit', 1, Len(transit)) = transit
    /\ \A k \in PositiveLines(args.poLines) :
         \E i \in AddedTransit :
           /\ transit'[i].poLineId = args.poLines[k].id
           /\ transit'[i].purchaseOrderId = args.purchaseOrderId
           /\ transit'[i].quantity = args.poLines[k].quantity.val
           /\ transit'[i].remainingQuantity = args.poLines[k].quantity.val
           /\ \E j \in DOMAIN transit :
                /\ transit[j].poLineId = args.poLines[k].id
                /\ transit[j].quantity = transit'[i].quantity
    /\ OnlyFirstSyncOfOrder =>
         InTransitOfOrder(transit', args.purchaseOrderId)
           = jsAdd(InTransitOfOrder(transit, args.purchaseOrderId),
                   InTransitOfOrder(transit, args.purchaseOrderId))

\* C19: sync is not idempotent: a second call with the same purchase order
\* and lines, directly after the first, adds one more transit record for
\* every line with a quantity > 0, reports the same transitCreated, and the
\* quantity in transit of the purchase order doubles.
C19_SecondSyncDoubles == [][C19_SecondSyncStep]_vars

\* C19 witness: the same one-line sync of 3 units made twice: two transit
\* records of the same line, 6 units in transit.
C19_Witness ==
  /\ ret.op = "sync" /\ calls = 2 /\ ret.value.transitCreated = 1
  /\ args # <<>> /\ Len(args.poLines) = 1
  /\ args.poLines[1].description = RedFox /\ args.poLines[1].quantity = Num(3)
  /\ Len(transit) = 2
  /\ transit[1].poLineId = transit[2].poLineId
  /\ transit[1].quantity = 3 /\ transit[2].quantity = 3
  /\ transit[1].unitCostGBP = transit[2].unitCostGBP
  /\ InTransitOfOrder(transit, args.purchaseOrderId) = 6
  /\ Len(products) = 1 /\ products[1].aliases = <<RedFox>>

\* The purchase orders of the transit records a step adds, and the data a
\* backfill run starts from.
OrdersWithTransit(trans) == {trans[i].purchaseOrderId : i \in DOMAIN trans}
OrdersWithLines == {orderLines[i].purchaseOrderId : i \in DOMAIN orderLines}
SyncedOrders == {args'[j].purchaseOrderId : j \in DOMAIN args'}

C20_BackfillStep ==
  ret'.op = "backfill" =>
    /\ \A j \in DOMAIN args' :
         /\ args'[j].purchaseOrderId \in OrdersWithLines
         /\ args'[j].purchaseOrderId \notin OrdersWithTransit(transit)
         /\ args'[j].purchaseOrderId \notin OrdersWithTransit(disk.transit)
         /\ \A i \in DOMAIN args' : args'[i].purchaseOrderId = args'[j].purchaseOrderId => i = j
    /\ ret'.value.purchaseOrdersProcessed = Len(args')
    /\ SubSeq(transit', 1, Len(transit)) = transit
    /\ \A i \in AddedTransit :
         /\ transit'[i].purchaseOrderId \in SyncedOrders
         /\ transit'[i].purchaseOrderId \notin OrdersWithTransit(transit)

\* C20: a backfill run calls sync only for purchase orders that have a line
\* and had no transit record when the run started, each at most once; the
\* transit records it adds all belong to such orders.
C20_BackfillSkipsSynced == [][C20_BackfillStep]_vars

\* C20 witness: a run over two orders with lines has synced the second and
\* left the first, which had transit records, alone.
C20_Witness ==
  /\ ret.op = "backfill" /\ ret.value.purchaseOrdersProcessed = 1
  /\ Len(purchaseOrders) = 2
  /\ OrdersWithLines = {1, 2}
  /\ Len(args) = 1 /\ args[1].purchaseOrderId = 2
  /\ ret.value.transitCreated >= 1
  /\ Cardinality({i \in DOMAIN transit : transit[i].purchaseOrderId = 1}) = 1
  /\ transit[1].purchaseOrderId = 1
  /\ transit[Len(transit)].purchaseOrderId = 2

\* The de-duplicated token sets of the two arguments.
ASet == {args.aTokens[k] : k \in DOMAIN args.aTokens}
BSet == {args.bTokens[k] : k \in DOMAIN args.bTokens}

\* C21: the similarity of two token sequences is |A \cap B| / |A \cup B| over
\* their token sets: symmetric, within [0, 1], 0 when the sets are disjoint or
\* a sequence is empty, 1 when the sets are equal and non-empty.
C21_SimilarityIsJaccard ==
  ret.op = "computeTokenSimilarity" =>
    LET n == ret.value[1]
        d == ret.value[2]
        back == computeTokenSimilarity(args.bTokens, args.aTokens)
    IN /\ d > 0 /\ 0 <= n /\ n <= d
       /\ (ASet # {} /\ BSet # {}) =>
            n * Cardinality(ASet \cup BSet) = d * Cardinality(ASet \cap BSet)
       /\ n * back[2] = back[1] * d
       /\ (ASet \cap BSet = {}) => n = 0
       /\ (args.aTokens = <<>> \/ args.bTokens = <<>>) => n = 0
       /\ (ASet = BSet /\ ASet # {}) => n = d

\* C21 witness: <<red, red, fox>> against <<fox, red>> scores 1.
C21_Witness ==
  /\ ret.op = "computeTokenSimilarity"
  /\ args.aTokens = <<RedOnly, RedOnly, <<"f", "o", "x">>>>
  /\ args.bTokens = <<<<"f", "o", "x">>, RedOnly>>
  /\ ret.value[1] = ret.value[2]

\* The order of the statuses of a transit record.
StatusRank(status) ==
  CASE status = "in_transit" -> 0
    [] status = "partially_received" -> 1
    [] status = "received" -> 2

C22_TransitStep ==
  \A i \in DOMAIN transit :
    /\ i \in DOMAIN transit'
    /\ transit'[i].id = transit[i].id
    /\ transit'[i].quantity = transit[i].quantity
    /\ transit'[i].unitCostGBP = transit[i].unitCostGBP
    /\ transit'[i].productId = transit[i].productId
    /\ transit'[i].purchaseOrderId = transit[i].purchaseOrderId
    /\ transit'[i].remainingQuantity # NaN
    /\ transit'[i].remainingQuantity <= transit[i].remainingQuantity
    /\ StatusRank(transit'[i].status) >= StatusRank(transit[i].status)
    /\ transit[i].status = "received" => transit'[i] = transit[i]
    /\ ret'.op = "sync" => transit'[i] = transit[i]

\* C22: in every step a transit record that exists keeps its quantity, unit
\* cost, product and purchase order, its remaining quantity does not grow,
\* its status does not move backwards, a received record is not modified,
\* and sync modifies no existing record.
C22_TransitOnlyDrainsDown == [][C22_TransitStep]_vars

\* C22 witness: a sync has added a third record next to one received and one
\* partially received.
C22_Witness ==
  /\ ret.op = "sync" /\ ret.value.transitCreated = 1
  /\ Len(transit) = 3
  /\ transit[1].status = "received" /\ transit[1].remainingQuantity = 0
  /\ transit[2].status = "partially_received"
  /\ transit[2].remainingQuantity < transit[2].quantity
  /\ transit[3].status = "in_transit"

\* The Jaccard similarity of two texts as a fraction, and the best one a
\* product reaches over its name and aliases.
Jaccard(a, b) ==
  IF TokenSet(a) = {} \/ TokenSet(b) = {} THEN <<0, 1>>
  ELSE <<Cardinality(TokenSet(a) \cap TokenSet(b)), Cardinality(TokenSet(a) \cup TokenSet(b))>>
FractionLe(f, g) == f[1] * g[2] <= g[1] * f[2]
ProductSimilarity(p, description) ==
  LET all == {Jaccard(description, p.name)}
               \cup {Jaccard(description, p.aliases[k]) : k \in DOMAIN p.aliases}
  IN CHOOSE f \in all : \A g \in all : FractionLe(g, f)
\* The products of the catalog that reach the maximal similarity.
MostSimilar(description) ==
  {n \in DOMAIN products :
     \A m \in DOMAIN products :
       FractionLe(ProductSimilarity(products[m], description),
                  ProductSimilarity(products[n], description))}

C23_TieStep ==
  (SyncOfLines /\ ~IsBlank(FirstLine.description)
     /\ SkuCarriers(products, FirstLineSku) = {}
     /\ SomeProductSimilar(trim(FirstLine.description))) =>
    FirstLineProductId = products[Min(MostSimilar(trim(FirstLine.description)))].id

\* C23: in fuzzy matching the line resolves to the first product, in catalog
\* order, among those that reach the maximal similarity (>= 1/2).
C23_FirstOfEqualsWins == [][C23_TieStep]_vars

\* C23 witness: "red" scored 1/2 against both "red fox" and "red cub" and
\* has resolved to "red fox", the first of the two.
C23_Witness ==
  /\ ret.op = "sync" /\ ret.value.productsMatched = 1 /\ ret.value.productsCreated = 0
  /\ args # <<>> /\ Len(args.poLines) = 1
  /\ args.poLines[1].description = RedOnly /\ args.poLines[1].supplierSku = Null
  /\ Len(products) = 2
  /\ products[1].name = RedFox /\ products[1].aliases = <<RedFox, RedOnly>>
  /\ products[2].name = RedCub /\ products[2].aliases = <<RedCub>>
  /\ transit[Len(transit)].productId = products[1].id

C24_CounterStep ==
  ret'.op = "sync" =>
    /\ ret'.value.productsCreated + ret'.value.productsMatched
         = Cardinality(NonBlankLines(args'.poLines))
    /\ Len(products') = Len(products) + ret'.value.productsCreated
    /\ Len(transit') = Len(transit) + ret'.value.transitCreated
    /\ ret'.value.productsCreated >= 0 /\ ret'.value.productsMatched >= 0
    /\ ret'.value.transitCreated >= 0

\* C24: the counters a sync returns match what it did: productsCreated +
\* productsMatched is the number of lines with a non-blank description, the
\* catalog grows by productsCreated and the transit records by
\* transitCreated.
C24_CountersMatch == [][C24_CounterStep]_vars

\* C24 witness: a sync of a blank line, a line of quantity 0 and nothing
\* else: one product resolved, no transit record.
C24_Witness ==
  /\ ret.op = "sync" /\ calls = 1
  /\ args # <<>> /\ Len(args.poLines) = 2
  /\ IsBlank(args.poLines[1].description) /\ ~IsBlank(args.poLines[2].description)
  /\ ret.value.productsCreated = 1 /\ ret.value.productsMatched = 0
  /\ ret.value.transitCreated = 0
  /\ Len(products) = 1 /\ transit = <<>>

\* The calls all made and returned, the successful receives among them, and
\* the sums the conservation of stock is about.
AllCallsDone == \A id \in Tasks : pending[id].pc = "done"
SuccessfulReceivesOf(productId) ==
  {id \in Tasks : /\ pending[id].op = "receive" /\ pending[id].pc = "done"
                  /\ pending[id].ret.error = ""
                  /\ pending[id].params.productId = productId}
RECURSIVE SumReceived(_)
SumReceived(S) ==
  IF S = {} THEN 0
  ELSE LET id == CHOOSE id \in S : TRUE
       IN pending[id].ret.value.receivedQuantity + SumReceived(S \ {id})
RECURSIVE SumQuantityOf(_, _)
SumQuantityOf(trans, S) ==
  IF S = {} THEN 0
  ELSE IF \E i \in S : trans[i].quantity = Infinity THEN Infinity
  ELSE LET i == CHOOSE i \in S : TRUE
       IN trans[i].quantity + SumQuantityOf(trans, S \ {i})
RecordsOf(productId) == {i \in DOMAIN transit : transit[i].productId = productId}
OnHandOf(productId) == InventoryOf(inventory, productId).quantityOnHand

AllRunsDone == \A id \in DOMAIN pending : pending[id].pc = "done"
LinesSyncedTwice ==
  {i \in DOMAIN transit :
     \E j \in DOMAIN transit :
       /\ j # i
       /\ transit[j].purchaseOrderId = transit[i].purchaseOrderId
       /\ transit[j].poLineId = transit[i].poLineId}
Conserved(store, productId) ==
  LET records == {i \in DOMAIN store.transit : store.transit[i].productId = productId}
  IN jsAdd(InventoryOf(store.inventory, productId).quantityOnHand,
           SumRemainingOf(store.transit, records))
       = SumQuantityOf(store.transit, records)
C27_StockConserved ==
  \A n \in DOMAIN products :
    /\ Conserved(Written(products, inventory, transit), products[n].id)
    /\ Conserved(disk, products[n].id)

\* C27 witness: a receive has just failed for a product that has stock on
\* hand and stock left in transit.
C27_Witness ==
  /\ ret.op = "receive" /\ ret.error # ""
  /\ \E n \in DOMAIN products :
       /\ OnHandOf(products[n].id) > 0
       /\ SumRemainingOf(transit, RecordsOf(products[n].id)) > 0
       /\ SumRemainingOf(transit, RecordsOf(products[n].id)) < Infinity

\* C28: every product has at most one transit record in status
\* partially_received, and in creation order (store order among records of
\* the same time) every record before one that has been drawn on is used up.
PartiallyReceivedOf(productId) ==
  {i \in RecordsOf(productId) : transit[i].status = "partially_received"}
C28_OnePartialRecord ==
  \A n \in DOMAIN products :
    /\ Cardinality(PartiallyReceivedOf(products[n].id)) <= 1
    /\ \A i, j \in RecordsOf(products[n].id) :
         (CreatedBefore(i, j) /\ transit[j].remainingQuantity < transit[j].quantity)
           => transit[i].remainingQuantity = 0

\* C28 witness: a product has a received record, then a partially received
\* one, then an untouched one.
C28_Witness ==
  \E i, j, k \in DOMAIN transit :
    /\ transit[i].productId = transit[j].productId
    /\ transit[j].productId = transit[k].productId
    /\ CreatedBefore(i, j) /\ CreatedBefore(j, k)
    /\ transit[i].status = "received"
    /\ transit[j].status = "partially_received"
    /\ transit[k].status = "in_transit"

\* C29: no two distinct products have the same non-null primary SKU, compared
\* without regard to case; a sync creates a product with a SKU only when no
\* product before it in the catalog carries that SKU as primary SKU, supplier
\* SKU or barcode; and no call changes the SKUs of an existing product.
C29_NoSharedPrimarySku ==
  \A m, n \in DOMAIN products :
    (m # n /\ products[m].primarySku # Null)
      => ~SameIgnoringCase(products[m].primarySku, products[n].primarySku)
C29_SkuStep ==
  /\ \A n \in DOMAIN products :
       /\ n \in DOMAIN products'
       /\ products'[n].id = products[n].id
       /\ products'[n].primarySku = products[n].primarySku
       /\ products'[n].supplierSku = products[n].supplierSku
  /\ \A n \in DOMAIN products' \ DOMAIN products :
       products'[n].primarySku # Null =>
         /\ ret'.op = "sync"
         /\ \A m \in 1..(n - 1) : ~CarriesSku(products'[m], products'[n].primarySku)
C29_PrimarySkuUnique == []C29_NoSharedPrimarySku /\ [][C29_SkuStep]_vars

\* C29 witness: a sync has just resolved a line whose SKU differs only in
\* case from the primary SKU of the one product that has it.
C29_Witness ==
  /\ ret.op = "sync"
  /\ \E k \in DOMAIN args.poLines, n \in DOMAIN products :
       /\ args.poLines[k].supplierSku # Null
       /\ products[n].primarySku # Null
       /\ trim(args.poLines[k].supplierSku) # products[n].primarySku
       /\ SameIgnoringCase(trim(args.poLines[k].supplierSku), products[n].primarySku)
       /\ ~IsBlank(args.poLines[k].description)
  /\ Len(products) = 2

\* Line k of the sync carries no SKU and a description that a product of the
\* catalog has as its name or among its aliases when the line is processed:
\* a product stored before the call, or the product an earlier line went to.
LinesBefore(k) == {j \in NonBlankLines(args'.poLines) : j < k}
DescriptionSeen(k) ==
  LET d == trim(args'.poLines[k].description)
  IN /\ args'.poLines[k].supplierSku = Null
     /\ \/ \E n \in DOMAIN products : products[n].name = d \/ Includes(products[n].aliases, d)
        \/ \E j \in LinesBefore(k) : trim(args'.poLines[j].description) = d
\* Line k went to a product that was in the catalog when it was processed.
ResolvedToExisting(k) ==
  LineProduct(k).id \in ExistingIds \cup {LineProduct(j).id : j \in LinesBefore(k)}
HasTokens(k) == Tokens(trim(args'.poLines[k].description)) # <<>>

\* C30 as stated: a line without SKU whose trimmed description is the name or
\* an alias of a product goes to an existing product, whatever the description.
C30_Original ==
  ret'.op = "sync" =>
    \A k \in NonBlankLines(args'.poLines) : DescriptionSeen(k) => ResolvedToExisting(k)
C30_SeenDescriptionNotDuplicated == [][C30_Original]_vars

\* C30 as amended: a line without SKU whose trimmed description is the name or
\* an alias of a product, and has at least one token left after
\* normalisation, goes to an existing product and creates none.
C30_Amended ==
  ret'.op = "sync" =>
    \A k \in NonBlankLines(args'.poLines) :
      (DescriptionSeen(k) /\ HasTokens(k)) => ResolvedToExisting(k)
C30_SeenTokensNotDuplicated == [][C30_Amended]_vars

\* C30 witness: a sync of the same description twice has created one product
\* and matched it with the second line.
C30_Witness ==
  /\ ret.op = "sync"
  /\ Len(args.poLines) = 2
  /\ args.poLines[1].description = RedFox
  /\ args.poLines[2].description = RedFox
  /\ ret.value.productsCreated = 1
  /\ ret.value.productsMatched = 1

\* C31: after a successful receive the new average cost lies between the
\* least and the greatest of the previous average cost (counted when the
\* previous on-hand quantity is positive) and the unit costs of the transit
\* records the receive consumed; and in every state every InventoryRecord has
\* quantityOnHand >= 0 and averageCostGBP >= 0.
ConsumedCosts(ids) ==
  {transit[TransitIndexOf(ids[k])].unitCostGBP : k \in DOMAIN ids}
C31_NonNegative ==
  \A k \in DOMAIN inventory :
    /\ jsGe(inventory[k].quantityOnHand, 0)
    /\ jsGe(inventory[k].averageCostGBP, 0)
C31_BetweenStep ==
  (ret'.op = "receive" /\ ret'.error = "") =>
    LET v == ret'.value
        old == InventoryOf(inventory, v.productId)
        costs == ConsumedCosts(v.affectedTransitIds)
                   \cup (IF old.quantityOnHand > 0 THEN {old.averageCostGBP} ELSE {})
    IN /\ costs # {}
       /\ \E c \in costs : jsLe(c, v.newAverageCostGBP)
       /\ \E c \in costs : jsLe(v.newAverageCostGBP, c)
       /\ InventoryOf(inventory', v.productId).averageCostGBP = v.newAverageCostGBP
C31_AverageWithinCosts == []C31_NonNegative /\ [][C31_BetweenStep]_vars

\* C31 witness: stock on hand at 2.0 and a receipt at 3.0 gave an average
\* strictly between the two.
C31_Witness ==
  /\ ReceiveSucceeded
  /\ \E i \in DOMAIN transit :
       /\ Includes(ret.value.affectedTransitIds, transit[i].id)
       /\ transit[i].unitCostGBP = 30000
  /\ ret.value.newAverageCostGBP > 20000
  /\ ret.value.newAverageCostGBP < 30000

\* C32: a receive leaves every Product record and the set of TransitRecords as
\* they were, and the InventoryRecords and TransitRecords of every other
\* product too; of the product's own TransitRecords only those listed in
\* affectedTransitIds change, and affectedTransitIds lists exactly the records
\* whose remainingQuantity decreased, oldest first.
Decreased == {i \in DOMAIN transit : transit'[i].remainingQuantity < transit[i].remainingQuantity}
OldestFirst(ids) ==
  \A a, b \in DOMAIN ids :
    a < b => CreatedBefore(TransitIndexOf(ids[a]), TransitIndexOf(ids[b]))
ReceiveFrame ==
  /\ products' = products
  /\ DOMAIN transit' = DOMAIN transit
  /\ \A i \in DOMAIN transit :
       /\ transit'[i].id = transit[i].id
       /\ transit'[i].productId = transit[i].productId
  /\ \A k \in DOMAIN inventory :
       /\ k \in DOMAIN inventory'
       /\ (ret'.error # "" \/ inventory[k].productId # ret'.value.productId)
            => inventory'[k] = inventory[k]
  /\ Len(inventory') <= Len(inventory) + 1
  /\ ret'.error # "" => transit' = transit
  /\ ret'.error = "" =>
       /\ \A k \in DOMAIN inventory' \ DOMAIN inventory :
            inventory'[k].productId = ret'.value.productId
       /\ \A i \in DOMAIN transit :
            transit'[i] # transit[i] =>
              /\ transit[i].productId = ret'.value.productId
              /\ Includes(ret'.value.affectedTransitIds, transit[i].id)
       /\ NoDuplicates(ret'.value.affectedTransitIds)
       /\ OldestFirst(ret'.value.affectedTransitIds)
C32_Step ==
  ret'.op = "receive" =>
    /\ ReceiveFrame
    /\ ret'.error = "" =>
         {transit[i].id : i \in Decreased}
           = {ret'.value.affectedTransitIds[k] : k \in DOMAIN ret'.value.affectedTransitIds}
C32_ReceiveTouchesOwnRecordsOnly == [][C32_Step]_vars

\* C33: a backfill run that follows a completed backfill run, with no purchase
\* order or line created in between, calls sync for no purchase order, reports
\* purchaseOrdersProcessed = 0 and leaves products, aliases, inventory and
\* transit records unchanged.
C33_SecondRunStep ==
  (ret.op = "backfill" /\ ret'.op = "backfill") =>
    /\ args' = <<>>
    /\ ret'.value.purchaseOrdersProcessed = 0
    /\ products' = products
    /\ inventory' = inventory
    /\ transit' = transit
C33_BackfillIdempotent == [][C33_SecondRunStep]_vars
====
